---- MODULE Spec2Model ----
(***************************************************************************)
(* GovulnersWrapperSingleton (clients/govulners_wrapper.py): the two       *)
(* govulners_db slots (production, staging), the reader-writer lock that   *)
(* guards them, the content-addressed directories under the managed root,  *)
(* and the operations that install, unstage, read and query them, run by   *)
(* several threads of one process.                                         *)
(*                                                                         *)
(* MetadataSyncUtils (services/policy_engine/engine/feeds/sync_utils.py):  *)
(* sync_metadata, which reconciles the feed and group metadata records of  *)
(* the database with the listing an upstream source reports, as one unit   *)
(* of work of a database session.                                          *)
(*                                                                         *)
(* LegacySyncUtilProvider and GovulnersDBSyncUtilProvider (same file): the *)
(* functions that choose the groups to download and shape the results.    *)
(*                                                                         *)
(* HTTPBasicAuthClient, FeedServiceClient and GovulnersDBServiceClient     *)
(* (services/policy_engine/engine/feeds/client.py): the request loop with  *)
(* its retries and the fetch operations built on it.                       *)
(*                                                                         *)
(* query_vulnerabilities (clients/govulners_wrapper.py): the query of the  *)
(* vulnerability and vulnerability_metadata tables of the production       *)
(* database.                                                               *)
(*                                                                         *)
(* GovulnersScanner._is_only_nvd_namespace                                 *)
(* (services/policy_engine/engine/vulns/scanners.py).                      *)
(***************************************************************************)
EXTENDS Integers, FiniteSets, Sequences, TLC

VARIABLES
    slot,        \* slot[s]: the three class-level fields of slot s
    fs,          \* fs[d]: the directory {root}/{checksum}/{version} of descriptor d
    rootFiles,   \* archive files lying in the managed root (copied, not yet removed)
    rootExists,  \* whether the managed root directory exists
    readers,     \* threads holding the read side of _govulners_db_lock
    writer,      \* the thread holding the write side, or None
    pc,          \* pc[t]: where thread t is in its current call
    call,        \* call[t]: the operation thread t runs and its arguments
    loc,         \* loc[t]: the call's local values (fields read so far)
    res,         \* res[t]: how the last call of t ended
    waited,      \* waited[t]: clock ticks t has spent in its current acquire
    ncalls,      \* number of calls started so far
    touched,     \* history: the install in progress has changed the production
                 \* slot's fields or the files of the production directory
    lastProd,    \* history: the archive_checksum of the most recent production
                 \* install that returned, or None
    db,          \* the committed FeedMetadata records, by feed name
    sess,        \* the records as the session's open transaction has them
    sync,        \* the sync_metadata call in progress: position, arguments, locals
    sres,        \* how the last sync_metadata call ended
    nsync,       \* number of sync_metadata calls started so far
    hist,        \* history: the records when the call started, and the previous
                 \* call when the caller repeats it
    prov,        \* the last call of a stateless function (a SyncUtilProvider function,
                 \* GovulnersScanner._is_only_nvd_namespace): arguments, result
    http,        \* the execute_request call of the HTTP client: position, locals
    fetch,       \* the fetch operation of a feed client in progress, and its result
    up,          \* what the upstream service serves: listing pages, listing.json
    qry,         \* the tables of the production database and the last query of them
    single       \* the class attributes GovulnersWrapperSingleton.__new__ assigns, and
                 \* each thread's position in get_instance and what it got

WrapperVars == <<slot, fs, rootFiles, rootExists, readers, writer,
                 pc, call, loc, res, waited, ncalls, touched, lastProd>>

SyncVars == <<db, sess, sync, sres, nsync, hist>>

FeedVars == <<prov, http, fetch, up, qry, single>>

vars == <<slot, fs, rootFiles, rootExists, readers, writer,
          pc, call, loc, res, waited, ncalls, touched, lastProd,
          db, sess, sync, sres, nsync, hist,
          prov, http, fetch, up, qry, single>>

-----------------------------------------------------------------------------
(* Bounds of the model *)

\* Calls started in one behaviour.
MaxCalls == 2

\* Clock ticks that make up the lock acquisition timeout
\* (LOCK_READ_ACCESS_TIMEOUT, used by both read_lock_access and write_lock_access).
WaitTicks == 2

None == "None"

Threads == {"t1", "t2"}

Slots == {"prod", "staging"}

\* The (archive_checksum, govulners_db_version) pairs callers install under.
Descs == {<<"c1", "v1">>, <<"c2", "v2">>}

\* Local archive files that exist; MissingArchive is a path with no file behind it.
Archives == {"a1", "a2"}

MissingArchive == "missing"

\* The members of each archive: the relational file and the upstream-authored
\* metadata.json, given by what json.load makes of it: a dict with a checksum
\* field ("k1"), or a file that does not parse ("corrupt").
ArchiveContent(a) ==
    CASE a = "a1" -> [db |-> "db1", meta |-> "k1"]
      [] a = "a2" -> [db |-> "db2", meta |-> "corrupt"]

DbChecksums == {"k1"}

MetaFiles == {"metadata.json", "engine_metadata.json"}

-----------------------------------------------------------------------------
(* Values *)

\* No session maker / no descriptor
NoDesc == <<None, None>>

\* A Python None result, or a file that is not there
NoVal == [kind |-> "None"]

UnsetSlot == [dir |-> None, ver |-> None, sm |-> NoDesc]

EmptyDir == [exists |-> FALSE, db |-> None, meta |-> None, emeta |-> NoVal]

NoCall == [op |-> None, archive |-> None, desc |-> NoDesc, staging |-> FALSE, file |-> None]

NoLoc == [dir |-> None, ver |-> None, sm |-> NoDesc]

NoRes == [err |-> None, val |-> NoVal]

\* GovulnersDBEngineMetadata / the dict written to engine_metadata.json
EngineMetadata(c, k, v) ==
    [kind |-> "GovulnersDBEngineMetadata",
     archive_checksum |-> c, db_checksum |-> k, govulners_db_version |-> v]

\* GovulnersDBMetadata, by its checksum field
DBMetadata(k) == [kind |-> "GovulnersDBMetadata", checksum |-> k]

SlotOf(t) == IF call[t].staging THEN "staging" ELSE "prod"

\* The directory {root}/{c}/{v}; a path no install ever made is an empty directory.
DirAt(c, v) == IF <<c, v>> \in Descs THEN fs[<<c, v>>] ELSE EmptyDir

\* read_file_to_json on metadata.json: None when the file is absent or does not parse
JsonOfMeta(m) == IF m \in {None, "corrupt"} THEN None ELSE m

\* metadata.get("checksum", None)
ChecksumField(m) == IF m \in DbChecksums THEN m ELSE None

\* The directory after extractall has written the members named in `members`
\* over whatever the directory held (files the archive does not name stay).
Extracted(dir, a, members) ==
    [dir EXCEPT !.exists = TRUE,
                !.db = IF "db" \in members THEN ArchiveContent(a).db ELSE @,
                !.meta = IF "meta" \in members THEN ArchiveContent(a).meta ELSE @]

\* Mutant: db_checksum is left at its initial None, metadata.json is not read.
DbChecksumUnread(dir) == None

\* The db_checksum _write_engine_metadata_to_file takes from the directory's
\* metadata.json: None unless the file parses to something truthy.
DbChecksumOf(dir) ==
    IF JsonOfMeta(dir.meta) = None THEN None ELSE ChecksumField(dir.meta)

\* The directory an install of archive a under descriptor d leaves behind.
Installed(a, d) ==
    LET x == Extracted(EmptyDir, a, {"db", "meta"})
    IN [x EXCEPT !.emeta = EngineMetadata(d[1], DbChecksumOf(x), d[2])]

-----------------------------------------------------------------------------
(* Feed metadata: the records of the database and the upstream listing.      *)

\* Calls of sync_metadata started in one behaviour.
MaxSyncs == 2

Feeds == {"A", "B"}

GroupNames == {"g1"}

\* A FeedGroupMetadata record (absent: present = FALSE).  born is the number
\* of the sync_metadata call that created it, 0 for a record older than that.
NoGroup ==
    [present |-> FALSE, description |-> None, access_tier |-> None,
     enabled |-> FALSE, last_sync |-> None, born |-> 0]

\* A FeedMetadata record with its groups; records are keyed by name.
NoFeed ==
    [present |-> FALSE, description |-> None, access_tier |-> None,
     enabled |-> FALSE, born |-> 0, groups |-> [g \in GroupNames |-> NoGroup]]

EmptyDb == [f \in Feeds |-> NoFeed]

\* Records an earlier sync and the operator (enable / disable, data sync) left.
OldGroup ==
    [present |-> TRUE, description |-> "d0", access_tier |-> "t0",
     enabled |-> FALSE, last_sync |-> "synced", born |-> 0]

OldFeeds ==
    {[NoFeed EXCEPT !.present = TRUE, !.description = "d0", !.access_tier = "t0",
                    !.enabled = TRUE],
     [NoFeed EXCEPT !.present = TRUE, !.description = "d0", !.access_tier = "t0",
                    !.enabled = FALSE, !.groups = [g \in GroupNames |-> OldGroup]]}

\* The databases a sync_metadata call may find.
InitialDbs == [Feeds -> {NoFeed} \cup OldFeeds]

\* A FeedAPIGroupRecord of the listing; ok = FALSE is an entry that is not a
\* group record (None), on which api_group.name raises AttributeError.
ApiGroup(g) == [ok |-> TRUE, name |-> g, description |-> "d1", access_tier |-> "t1"]

BadApiGroup == [ok |-> FALSE, name |-> None, description |-> None, access_tier |-> None]

\* One entry of source_feeds: {"meta": FeedAPIRecord, "groups": [...]};
\* meta = FALSE is an entry without the "meta" key (KeyError).
ApiRecords(f) ==
    {[name |-> f, meta |-> FALSE, description |-> None, access_tier |-> None,
      groups |-> <<>>]}
    \cup {[name |-> f, meta |-> TRUE, description |-> "d1", access_tier |-> "t1",
           groups |-> gs] :
            gs \in {<<ApiGroup("g1")>>, <<ApiGroup("g1"), BadApiGroup>>}}

\* source_feeds: a dict, iterated in insertion order
SourceFeeds ==
    {<<>>}
    \cup {<<r>> : r \in UNION {ApiRecords(f) : f \in Feeds}}
    \cup {<<r1, r2>> : r1 \in ApiRecords("A"), r2 \in ApiRecords("B")}
    \cup {<<r2, r1>> : r1 \in ApiRecords("A"), r2 \in ApiRecords("B")}

SourceNames(source) == {source[i].name : i \in 1..Len(source)}

NoInput == [source |-> <<>>, to_sync |-> {}, groups |-> TRUE]

NoSyncResult == [err |-> None, feeds |-> {}, failed |-> <<>>]

IdleSync ==
    [pc |-> "idle", input |-> NoInput, i |-> 0, db_feeds |-> {},
     failed |-> <<>>, broken |-> FALSE, err |-> None, again |-> FALSE]

NoHist == [start |-> EmptyDb, repeat |-> FALSE, res |-> NoSyncResult]

\* No sync_metadata call has run and none runs.
SyncQuiet ==
    /\ db = EmptyDb
    /\ sess = EmptyDb
    /\ sync = IdleSync
    /\ sres = NoSyncResult
    /\ nsync = 0
    /\ hist = NoHist

-----------------------------------------------------------------------------
(* Values of the SyncUtilProvider functions.                                 *)

\* The FeedMetadata records a DataFeed's metadata can be: enabled or not, with
\* no group, a disabled group or an enabled group.
StoredGroups ==
    {NoGroup} \cup {[OldGroup EXCEPT !.enabled = e] : e \in BOOLEAN}

StoredFeeds ==
    {[NoFeed EXCEPT !.present = TRUE, !.description = "d0", !.access_tier = "t0",
                    !.enabled = e, !.groups = [g \in GroupNames |-> sg]] :
        e \in BOOLEAN, sg \in StoredGroups}

\* A DataFeed object: __feed_name__ and metadata (NoFeed: metadata is None).
DataFeeds == [name : Feeds, metadata : {NoFeed} \cup StoredFeeds]

\* feeds_to_sync: an ordered list of DataFeed objects.
FeedsToSync ==
    {<<>>} \cup {<<f>> : f \in DataFeeds}
           \cup {<<f1, f2>> : f1 \in DataFeeds, f2 \in DataFeeds}

\* No provider function has been called.
NoProv == [op |-> "none", args |-> <<>>, out |-> <<>>, after |-> <<>>, err |-> None]

\* source_feeds["govulnersdb"]["groups"]: the upstream group records of the feed.
SourceGroups ==
    {<<>>, <<ApiGroup("g1")>>,
     <<[ApiGroup("g1") EXCEPT !.description = "d2", !.access_tier = "t2"], ApiGroup("g1")>>}

\* GroupSyncResult objects.
GroupSyncResults ==
    [group : {"g1", "g2"}, status : {"success"}, total_time_seconds : {3, 7},
     updated_record_count : {5}, updated_image_count : {0}]
    \cup [group : {"g2"}, status : {"failure"}, total_time_seconds : {7},
          updated_record_count : {5}, updated_image_count : {0, 2}]

\* The groups of a FeedSyncResult: a list of GroupSyncResult.
GroupResultLists ==
    {<<>>} \cup {<<g>> : g \in GroupSyncResults}
           \cup {<<g1, g2>> : g1 \in GroupSyncResults, g2 \in GroupSyncResults}

\* feed_sync_results: the list of FeedSyncResult sync_from_fetched returned.
FeedSyncResultLists ==
    {<<>>} \cup {<<[groups |-> gl]>> : gl \in GroupResultLists}
           \cup {<<[groups |-> gl1], [groups |-> gl2]>> :
                    gl1 \in GroupResultLists, gl2 \in {<<>>} \cup {<<g>> : g \in GroupSyncResults}}

-----------------------------------------------------------------------------
(* Values of the HTTP client.                                                *)

MaxRetries == 2

\* client_config["max_retries"]
DefaultMaxRetries == 3

\* What one request can meet: a status code, or no response at all (0: a
\* connect timeout or another connection error).
Statuses == {0, 200, 204, 400, 401, 403, 404, 500}

\* The Content-Type header of a response; None: the response has none.
ContentTypes == {None, "application/json", "application/x-tar", "text/html"}

Outcomes ==
    {o \in [status : Statuses, ctype : ContentTypes] :
        /\ (o.status = 0) => (o.ctype = None)
        /\ (o.status \notin {0, 200}) => (o.ctype = "text/html")}

\* HTTPClientResponse(): content_type None, status_code 1, content b"", success False
NewResponse ==
    [content_type |-> None, status_code |-> 1, content |-> [kind |-> "empty", val |-> 0],
     success |-> FALSE]

\* A url: what it names (the feed listing, a feed's group listing, a group's
\* data, listing.json, a database archive) and the page token or archive in it.
NoUrl == [kind |-> "none", at |-> 0]

\* No execute_request call has been made.
IdleHttp ==
    [pc |-> "idle", owner |-> "none", url |-> NoUrl, retries |-> 0, given |-> 0,
     configured |-> 0, count |-> 0, success |-> FALSE, resp |-> NewResponse,
     tried |-> <<>>, err |-> None]

MaxPages == 2

MaxFetches == 3

\* FeedServiceClient.retry_count, GovulnersDBServiceClient.RETRY_COUNT
RetryCount == 3

\* The pages of an upstream listing, first page first: whether the page's
\* JSON has the "feeds" / "groups" key.  Page k holds the record k and the
\* next_token k when a page follows it, none on the last page.
UpstreamPages == UNION {[1..n -> BOOLEAN] : n \in 1..MaxPages}

\* The page the upstream serves for a token (0: no token).
PageAt(pages, token) ==
    [key |-> pages[token + 1], recs |-> <<token + 1>>,
     next |-> IF token + 1 < Len(pages) THEN token + 1 ELSE 0]

\* The schema versions a listing.json can have entries for, and the installed
\* govulners can report as supportedDbSchema.
Schemas == {"4", "5"}

\* listing.json, "available": per schema version, whether the key is there
\* and the entries under it, newest first.  An entry is a number: its url,
\* checksum and built are those of archive number e.
NoDbs == [has |-> FALSE, dbs |-> <<>>]

Manifests ==
    {[v \in Schemas |-> IF v = "4" THEN [has |-> TRUE, dbs |-> <<4>>] ELSE new] :
        new \in {NoDbs, [has |-> TRUE, dbs |-> <<>>],
                 [has |-> TRUE, dbs |-> <<1>>], [has |-> TRUE, dbs |-> <<2, 1>>]}}

NoManifest == [v \in Schemas |-> NoDbs]

\* Nothing served yet.
NoUpstream == [pages |-> <<TRUE>>, manifest |-> NoManifest]

\* No fetch operation has run.
IdleFetch ==
    [pc |-> "idle", op |-> "none", token |-> 0, acc |-> <<>>, asked |-> <<>>,
     stage |-> "listing", seen |-> NoManifest, version |-> None, entry |-> 0,
     listed |-> 0, out |-> <<>>, err |-> None]

(* The production database as query_vulnerabilities reads it: the          *)
(* vulnerability table (one row per affected package of a vulnerability)   *)
(* and the vulnerability_metadata table (one row per vulnerability and     *)
(* namespace).  Rows carry the columns the query joins and filters on.     *)

VulnIds == {"CVE-2021-1", "CVE-2021-2"}

Namespaces == {"debian:11", "alpine:3"}

PackageNames == {"curl", "zlib"}

MaxRows == 2

GovulnersVulnerability == [id : VulnIds, namespace : Namespaces, package_name : PackageNames]

GovulnersVulnerabilityMetadata == [id : VulnIds, namespace : Namespaces]

\* The vulnerability side of a joined row that no vulnerability row matched
\* (every column NULL).
NoVulnerability == [id |-> None, namespace |-> None, package_name |-> None]

Tables ==
    [vulnerability : {t \in SUBSET GovulnersVulnerability : Cardinality(t) <= MaxRows},
     vulnerability_metadata :
         {t \in SUBSET GovulnersVulnerabilityMetadata : Cardinality(t) <= MaxRows}]

\* An argument that is None, a string or a list of strings.
NoArg == [kind |-> "none", str |-> None, list |-> <<>>]

StrArg(s) == [kind |-> "str", str |-> s, list |-> <<>>]

ListArg(l) == [kind |-> "list", str |-> None, list |-> l]

ListsOf(S) == {<<>>} \cup {<<x>> : x \in S} \cup {<<x, y>> : x, y \in S}

ArgsOf(S) == {NoArg} \cup {StrArg(s) : s \in S} \cup {ListArg(l) : l \in ListsOf(S)}

NoQueryCall ==
    [vuln_id |-> NoArg, affected_package |-> None, namespace |-> NoArg,
     called |-> FALSE, out |-> {}, err |-> None]

NoQuery ==
    [tables |-> [vulnerability |-> {}, vulnerability_metadata |-> {}],
     last |-> NoQueryCall]

(* The singleton as a class: _govulners_wrapper_instance and               *)
(* _govulners_db_lock are class attributes, objects are named by numbers   *)
(* (0: None or not yet assigned).  The slot fields are class attributes    *)
(* set to None by __new__; an install assigns them on the instance it was  *)
(* called on (the property setters assign to self).                        *)

Objects == 0..Cardinality(Threads)

NotConstructed ==
    [instance |-> 0, lock |-> 0, fields |-> "unassigned", made |-> 0,
     pc |-> [t \in Threads |-> "idle"], mine |-> [t \in Threads |-> 0],
     got |-> [t \in Threads |-> 0], held |-> [t \in Threads |-> 0],
     err |-> [t \in Threads |-> None],
     installed |-> [i \in Objects \ {0} |-> FALSE]]

\* After the first get_instance() has returned, nobody in __new__.
Constructed ==
    [NotConstructed EXCEPT !.instance = 1, !.lock = 1, !.fields = "None", !.made = 1]

FeedQuiet ==
    /\ prov = NoProv /\ http = IdleHttp /\ fetch = IdleFetch /\ up = NoUpstream
    /\ qry = NoQuery
    /\ single = Constructed

-----------------------------------------------------------------------------
LockVars == <<readers, writer>>

DiskVars == <<fs, rootFiles, rootExists>>

\* Threads at rest, lock free.
InitThreads ==
    /\ readers = {}
    /\ writer = None
    /\ pc = [t \in Threads |-> "idle"]
    /\ call = [t \in Threads |-> NoCall]
    /\ loc = [t \in Threads |-> NoLoc]
    /\ res = [t \in Threads |-> NoRes]
    /\ waited = [t \in Threads |-> 0]
    /\ ncalls = 0
    /\ touched = FALSE

\* __new__: both slots unset, nothing on disk.
InitFresh ==
    /\ slot = [s \in Slots |-> UnsetSlot]
    /\ fs = [d \in Descs |-> EmptyDir]
    /\ rootFiles = {}
    /\ rootExists = FALSE
    /\ lastProd = None
    /\ InitThreads

\* The process after update_govulners_db("a1", "c1", "v1") has returned:
\* production installed, staging unset.
InitInstalled ==
    /\ slot = [s \in Slots |->
                IF s = "prod" THEN [dir |-> "c1", ver |-> "v1", sm |-> <<"c1", "v1">>]
                ELSE UnsetSlot]
    /\ fs = [d \in Descs |->
                IF d = <<"c1", "v1">> THEN Installed("a1", d) ELSE EmptyDir]
    /\ rootFiles = {}
    /\ rootExists = TRUE
    /\ lastProd = "c1"
    /\ InitThreads

Init == (InitFresh \/ InitInstalled) /\ SyncQuiet /\ FeedQuiet

-----------------------------------------------------------------------------
(* Leaving a call.  A `with self.read_lock_access()` / `write_lock_access()`   *)
(* block releases the lock in its finally clause on return and on exception, *)
(* and only when this acquisition holds it (read_lock.locked()).             *)

\* Mutant: a context manager without the finally clause.
ReleaseHeldNever(t) ==
    UNCHANGED <<readers, writer, touched>>

ReleaseHeld(t) ==
    /\ readers' = readers \ {t}
    /\ writer' = IF writer = t THEN None ELSE writer
    /\ touched' = IF writer = t THEN FALSE ELSE touched

Finish(t, e, v) ==
    /\ pc' = [pc EXCEPT ![t] = "done"]
    /\ res' = [res EXCEPT ![t] = [err |-> e, val |-> v]]
    /\ call' = [call EXCEPT ![t] = [NoCall EXCEPT !.op = call[t].op]]
    /\ loc' = [loc EXCEPT ![t] = NoLoc]
    /\ waited' = [waited EXCEPT ![t] = 0]
    /\ lastProd' = IF call[t].op = "update" /\ ~call[t].staging /\ e = None
                   THEN call[t].desc[1] ELSE lastProd
    /\ ReleaseHeld(t)
    /\ UNCHANGED <<SyncVars, FeedVars>>

\* A step inside a call that neither ends it nor touches the lock.
Goto(t, p) ==
    /\ pc' = [pc EXCEPT ![t] = p]
    /\ UNCHANGED <<LockVars, call, res, waited, ncalls, lastProd, SyncVars, FeedVars>>

-----------------------------------------------------------------------------
(* A thread starts a call. *)

FirstPc(op) ==
    CASE op = "update"   -> "w_wait"
      [] op = "unstage"  -> "un_dir"
      [] op = "match"    -> "r_wait"
      [] op = "counts"   -> "r_wait"
      [] op = "query"    -> "r_wait"
      [] op = "version"  -> "r_wait"
      [] op = "getmeta"  -> "md_dir"
      [] op = "checksum" -> "cs_dir"

\* update_govulners_db(archive, archive_checksum, govulners_db_version, use_staging)
UpdateCalls ==
    {[op |-> "update", archive |-> a, desc |-> d, staging |-> s,
      file |-> "engine_metadata.json"] :
        a \in Archives \cup {MissingArchive}, d \in Descs, s \in BOOLEAN}

\* get_vulnerabilities_for_sbom[_file](sbom), query_record_source_counts(use_staging),
\* query_vulnerabilities(...), get_govulners_version()
ReaderCalls ==
    {[op |-> "match", archive |-> None, desc |-> NoDesc, staging |-> FALSE, file |-> None]}
    \cup {[op |-> "query", archive |-> None, desc |-> NoDesc, staging |-> FALSE,
           file |-> None]}
    \cup {[op |-> "version", archive |-> None, desc |-> NoDesc, staging |-> FALSE,
           file |-> None]}
    \cup {[op |-> "counts", archive |-> None, desc |-> NoDesc, staging |-> s,
           file |-> "metadata.json"] : s \in BOOLEAN}

\* unstage_govulners_db(), get_govulners_db_metadata(use_staging),
\* get_govulners_db_engine_metadata(use_staging), get_current_govulners_db_checksum()
UnlockedCalls ==
    {[op |-> "unstage", archive |-> None, desc |-> NoDesc, staging |-> FALSE,
      file |-> "engine_metadata.json"]}
    \cup {[op |-> "getmeta", archive |-> None, desc |-> NoDesc, staging |-> s, file |-> f] :
            s \in BOOLEAN, f \in MetaFiles}
    \cup {[op |-> "checksum", archive |-> None, desc |-> NoDesc, staging |-> FALSE,
           file |-> None]}

Calls == UpdateCalls \cup ReaderCalls \cup UnlockedCalls

StartWith(t, menu) ==
    /\ pc[t] \in {"idle", "done"}
    /\ ncalls < MaxCalls
    /\ \E c \in menu :
        /\ call' = [call EXCEPT ![t] = c]
        /\ pc' = [pc EXCEPT ![t] = FirstPc(c.op)]
    /\ ncalls' = ncalls + 1
    /\ res' = [res EXCEPT ![t] = NoRes]
    /\ loc' = [loc EXCEPT ![t] = NoLoc]
    /\ UNCHANGED <<slot, DiskVars, LockVars, waited, touched, lastProd, SyncVars, FeedVars>>

StartCall(t) == StartWith(t, Calls)

-----------------------------------------------------------------------------
(* The reader-writer lock (rwlock.RWLockWrite: writers have priority).       *)

\* Writers blocked in acquire: RWLockWrite holds new readers off while a writer waits.
WaitingWriters == {t \in Threads : pc[t] = "w_wait"}

\* read_lock.acquire(timeout=...) returning True
ReadAcquire(t) ==
    /\ pc[t] = "r_wait"
    /\ writer = None
    /\ WaitingWriters = {}
    /\ readers' = readers \cup {t}
    /\ pc' = [pc EXCEPT ![t] = CASE call[t].op = "match" -> "m_env"
                                  [] call[t].op = "version" -> "m_run"
                                  [] OTHER -> "c_session"]
    /\ waited' = [waited EXCEPT ![t] = 0]
    /\ UNCHANGED <<slot, DiskVars, writer, call, loc, res, ncalls, touched, lastProd, SyncVars, FeedVars>>

\* Mutant: a write acquisition that does not wait for the readers to leave.
WriteAcquireIgnoringReaders(t) ==
    /\ pc[t] = "w_wait"
    /\ writer = None
    /\ writer' = t
    /\ pc' = [pc EXCEPT ![t] = "u_move"]
    /\ waited' = [waited EXCEPT ![t] = 0]
    /\ UNCHANGED <<slot, DiskVars, readers, call, loc, res, ncalls, touched, lastProd, SyncVars, FeedVars>>

\* write_lock.acquire(timeout=...) returning True
WriteAcquire(t) ==
    /\ pc[t] = "w_wait"
    /\ writer = None
    /\ readers = {}
    /\ writer' = t
    /\ pc' = [pc EXCEPT ![t] = "u_move"]
    /\ waited' = [waited EXCEPT ![t] = 0]
    /\ UNCHANGED <<slot, DiskVars, readers, call, loc, res, ncalls, touched, lastProd, SyncVars, FeedVars>>

\* Time passes for a thread blocked in acquire.
Tick(t) ==
    /\ pc[t] \in {"r_wait", "w_wait"}
    /\ waited[t] < WaitTicks
    /\ waited' = [waited EXCEPT ![t] = waited[t] + 1]
    /\ UNCHANGED <<slot, DiskVars, LockVars, pc, call, loc, res, ncalls, touched, lastProd, SyncVars, FeedVars>>

\* Mutant: acquire called without a timeout; it never returns False.
AcquireWithoutTimeout(t) ==
    /\ FALSE
    /\ UNCHANGED vars

\* Mutant: the finally clause releases the lock without asking locked().
AcquireTimeoutReleasing(t) ==
    /\ pc[t] \in {"r_wait", "w_wait"}
    /\ waited[t] >= WaitTicks
    /\ pc' = [pc EXCEPT ![t] = "done"]
    /\ res' = [res EXCEPT ![t] = [err |-> "LockAcquisitionError", val |-> NoVal]]
    /\ call' = [call EXCEPT ![t] = [NoCall EXCEPT !.op = call[t].op]]
    /\ waited' = [waited EXCEPT ![t] = 0]
    /\ readers' = IF pc[t] = "r_wait" /\ readers # {}
                  THEN readers \ {CHOOSE r \in readers : TRUE} ELSE readers
    /\ writer' = IF pc[t] = "w_wait" THEN None ELSE writer
    /\ UNCHANGED <<slot, DiskVars, loc, ncalls, touched, lastProd, SyncVars, FeedVars>>

\* acquire returned False: raise LockAcquisitionError; the finally clause finds
\* locked() false and releases nothing.
AcquireTimeout(t) ==
    /\ pc[t] \in {"r_wait", "w_wait"}
    /\ waited[t] >= WaitTicks
    /\ pc' = [pc EXCEPT ![t] = "done"]
    /\ res' = [res EXCEPT ![t] = [err |-> "LockAcquisitionError", val |-> NoVal]]
    /\ call' = [call EXCEPT ![t] = [NoCall EXCEPT !.op = call[t].op]]
    /\ waited' = [waited EXCEPT ![t] = 0]
    /\ UNCHANGED <<slot, DiskVars, LockVars, loc, ncalls, touched, lastProd, SyncVars, FeedVars>>

-----------------------------------------------------------------------------
(* update_govulners_db, inside `with self.write_lock_access()`.  Every step  *)
(* that touches the disk may raise (OSError); the exception leaves the with  *)
(* block, which releases the write lock.                                     *)

\* The production directory {root}/{dir}/{version}, as the production fields name it.
ProdDesc == <<slot["prod"].dir, slot["prod"].ver>>

\* This step changes a production field or a file of the production directory.
Touches ==
    \/ slot'["prod"] # slot["prod"]
    \/ ProdDesc \in Descs /\ fs'[ProdDesc] # fs[ProdDesc]

Track == touched' = (touched \/ Touches)

\* Mutant: the destination file is opened before the source is looked for.
MoveArchiveUnchecked(t) ==
    /\ pc[t] = "u_move"
    /\ rootExists' = TRUE
    /\ \/ /\ call[t].archive = MissingArchive
          /\ rootFiles' = rootFiles \cup {call[t].archive}
          /\ Finish(t, "ArchiveNotFound", NoVal)
          /\ UNCHANGED <<slot, fs, ncalls>>
       \/ /\ call[t].archive # MissingArchive
          /\ Finish(t, "OSError", NoVal)
          /\ UNCHANGED <<slot, fs, rootFiles, ncalls>>
       \/ /\ call[t].archive # MissingArchive
          /\ rootFiles' = rootFiles \cup {call[t].archive}
          /\ Goto(t, "u_extract")
          /\ UNCHANGED <<slot, fs, loc, touched>>

\* _get_default_govulners_db_dir_from_config, then _move_govulners_db_archive:
\* create the managed root if absent, then copy the archive into it.
MoveArchive(t) ==
    /\ pc[t] = "u_move"
    /\ rootExists' = TRUE
    /\ \/ \* the archive does not exist: FileNotFoundError(ARCHIVE_FILE_NOT_FOUND_ERROR_MESSAGE)
          /\ call[t].archive = MissingArchive
          /\ Finish(t, "ArchiveNotFound", NoVal)
          /\ UNCHANGED <<slot, fs, rootFiles, ncalls>>
       \/ \* shutil.copyfile fails
          /\ call[t].archive # MissingArchive
          /\ Finish(t, "OSError", NoVal)
          /\ UNCHANGED <<slot, fs, rootFiles, ncalls>>
       \/ \* copied
          /\ call[t].archive # MissingArchive
          /\ rootFiles' = rootFiles \cup {call[t].archive}
          /\ Goto(t, "u_extract")
          /\ UNCHANGED <<slot, fs, loc, touched>>

\* _open_govulners_db_archive: makedirs if absent, then tarfile extractall into
\* {root}/{archive_checksum}/{govulners_db_version}.
OpenArchive(t) ==
    /\ pc[t] = "u_extract"
    /\ LET d == call[t].desc
           a == call[t].archive
       IN \/ \* os.makedirs fails
             /\ ~fs[d].exists
             /\ Finish(t, "OSError", NoVal)
             /\ UNCHANGED <<slot, DiskVars, ncalls>>
          \/ \* tarfile.open / extractall fails after writing some of the members
             /\ \E members \in (SUBSET {"db", "meta"}) \ {{"db", "meta"}} :
                    fs' = [fs EXCEPT ![d] = Extracted(fs[d], a, members)]
             /\ Finish(t, "ExtractError", NoVal)
             /\ UNCHANGED <<slot, rootFiles, rootExists, ncalls>>
          \/ \* every member extracted
             /\ fs' = [fs EXCEPT ![d] = Extracted(fs[d], a, {"db", "meta"})]
             /\ Goto(t, "u_remove")
             /\ UNCHANGED <<slot, rootFiles, rootExists, loc>>
             /\ Track

\* _remove_govulners_db_archive: os.remove of the copy in the managed root
RemoveArchive(t) ==
    /\ pc[t] = "u_remove"
    /\ \/ /\ Finish(t, "OSError", NoVal)
          /\ UNCHANGED <<slot, DiskVars, ncalls>>
       \/ /\ rootFiles' = rootFiles \ {call[t].archive}
          /\ Goto(t, "u_write_em")
          /\ UNCHANGED <<slot, fs, rootExists, loc, touched>>

\* _write_engine_metadata_to_file
WriteEngineMetadata(t) ==
    /\ pc[t] = "u_write_em"
    /\ LET d == call[t].desc
       IN \/ \* open(output_file, "w") fails
             /\ Finish(t, "OSError", NoVal)
             /\ UNCHANGED <<slot, DiskVars, ncalls>>
          \/ /\ fs' = [fs EXCEPT ![d].emeta =
                          EngineMetadata(d[1], DbChecksumOf(fs[d]), d[2])]
             /\ Goto(t, "u_engine")
             /\ UNCHANGED <<slot, rootFiles, rootExists, loc>>
             /\ Track

\* _init_latest_govulners_db_engine and _init_latest_govulners_db_session_maker:
\* the session maker is bound to {dir}/{version}/vulnerability.db
InitEngine(t) ==
    /\ pc[t] = "u_engine"
    /\ \/ /\ Finish(t, "EngineError", NoVal)
          /\ UNCHANGED <<slot, DiskVars, ncalls>>
       \/ /\ loc' = [loc EXCEPT ![t].sm = call[t].desc]
          /\ Goto(t, "u_set_dir")
          /\ UNCHANGED <<slot, DiskVars, touched>>

\* Mutant: the directory is stored in the production field whatever use_staging says.
SetDirInProduction(t) ==
    /\ pc[t] = "u_set_dir"
    /\ slot' = [slot EXCEPT !["prod"].dir = call[t].desc[1]]
    /\ Goto(t, "u_set_ver")
    /\ UNCHANGED <<DiskVars, loc>>
    /\ Track

\* self._[staging_]govulners_db_dir = latest_govulners_db_dir
SetDir(t) ==
    /\ pc[t] = "u_set_dir"
    /\ slot' = [slot EXCEPT ![SlotOf(t)].dir = call[t].desc[1]]
    /\ Goto(t, "u_set_ver")
    /\ UNCHANGED <<DiskVars, loc>>
    /\ Track

\* self._[staging_]govulners_db_version = govulners_db_version
SetVersion(t) ==
    /\ pc[t] = "u_set_ver"
    /\ slot' = [slot EXCEPT ![SlotOf(t)].ver = call[t].desc[2]]
    /\ Goto(t, "u_set_sm")
    /\ UNCHANGED <<DiskVars, loc>>
    /\ Track

\* Mutant: the read-back of the engine metadata takes the read lock.
SetSessionMakerThenLockedRead(t) ==
    /\ pc[t] = "u_set_sm"
    /\ slot' = [slot EXCEPT ![SlotOf(t)].sm = loc[t].sm]
    /\ loc' = [loc EXCEPT ![t] = NoLoc]
    /\ Goto(t, "r_wait")
    /\ UNCHANGED DiskVars
    /\ Track

\* self._[staging_]govulners_db_session_maker = latest_govulners_db_session_maker,
\* then return self.get_govulners_db_engine_metadata(use_staging)
SetSessionMaker(t) ==
    /\ pc[t] = "u_set_sm"
    /\ slot' = [slot EXCEPT ![SlotOf(t)].sm = loc[t].sm]
    /\ loc' = [loc EXCEPT ![t] = NoLoc]
    /\ Goto(t, "md_dir")
    /\ UNCHANGED DiskVars
    /\ Track

-----------------------------------------------------------------------------
(* _get_metadata_file_contents, as get_govulners_db_metadata and             *)
(* get_govulners_db_engine_metadata run it: called directly (no lock), by    *)
(* update_govulners_db before it returns, by unstage_govulners_db, and by    *)
(* query_record_source_counts.  It reads the slot's directory field, then    *)
(* its version field, then the file.                                         *)

\* The production getters raise ValueError on an unset field; the staging
\* getters return the field as it is.
FieldMissing(s, value) == s = "prod" /\ value = None

\* unstage_govulners_db catches the ValueError and returns None.
MissingField(t) ==
    IF call[t].op = "unstage" THEN Finish(t, None, NoVal)
    ELSE Finish(t, "ValueError", NoVal)

ReadDirField(t) ==
    /\ pc[t] = "md_dir"
    /\ IF FieldMissing(SlotOf(t), slot[SlotOf(t)].dir)
       THEN /\ MissingField(t)
            /\ UNCHANGED <<slot, DiskVars, ncalls>>
       ELSE /\ loc' = [loc EXCEPT ![t].dir = slot[SlotOf(t)].dir]
            /\ Goto(t, "md_ver")
            /\ UNCHANGED <<slot, DiskVars, touched>>

ReadVersionField(t) ==
    /\ pc[t] = "md_ver"
    /\ IF FieldMissing(SlotOf(t), slot[SlotOf(t)].ver)
       THEN /\ MissingField(t)
            /\ UNCHANGED <<slot, DiskVars, ncalls>>
       ELSE /\ loc' = [loc EXCEPT ![t].ver = slot[SlotOf(t)].ver]
            /\ Goto(t, "md_file")
            /\ UNCHANGED <<slot, DiskVars, touched>>

\* read_file_to_json of the named file, then to_object when the json is truthy
MetadataObject(dir, file) ==
    IF file = "engine_metadata.json" THEN dir.emeta
    ELSE IF JsonOfMeta(dir.meta) = None THEN NoVal
    ELSE DBMetadata(ChecksumField(dir.meta))

ReadMetadataFile(t) ==
    /\ pc[t] = "md_file"
    /\ \/ \* os.path.join on an unset (None) staging field
          /\ None \in {loc[t].dir, loc[t].ver}
          /\ Finish(t, "TypeError", NoVal)
       \/ \* open() of the file fails
          /\ None \notin {loc[t].dir, loc[t].ver}
          /\ Finish(t, "OSError", NoVal)
       \/ /\ None \notin {loc[t].dir, loc[t].ver}
          /\ Finish(t, None, MetadataObject(DirAt(loc[t].dir, loc[t].ver), call[t].file))
    /\ UNCHANGED <<slot, DiskVars, ncalls>>

-----------------------------------------------------------------------------
(* unstage_govulners_db: three assignments, no lock taken, then the          *)
(* production engine metadata.                                               *)

UnstageDir(t) ==
    /\ pc[t] = "un_dir"
    /\ slot' = [slot EXCEPT !["staging"].dir = None]
    /\ Goto(t, "un_ver")
    /\ UNCHANGED <<DiskVars, loc, touched>>

UnstageVersion(t) ==
    /\ pc[t] = "un_ver"
    /\ slot' = [slot EXCEPT !["staging"].ver = None]
    /\ Goto(t, "un_sm")
    /\ UNCHANGED <<DiskVars, loc, touched>>

UnstageSessionMaker(t) ==
    /\ pc[t] = "un_sm"
    /\ slot' = [slot EXCEPT !["staging"].sm = NoDesc]
    /\ Goto(t, "md_dir")
    /\ UNCHANGED <<DiskVars, loc, touched>>

-----------------------------------------------------------------------------
(* get_vulnerabilities_for_sbom / get_vulnerabilities_for_sbom_file, inside  *)
(* `with self.read_lock_access()`.                                           *)

\* _get_env_variables(): GOVULNERS_DB_CACHE_DIR = self._govulners_db_dir
GetEnvVariables(t) ==
    /\ pc[t] = "m_env"
    /\ IF slot["prod"].dir = None
       THEN /\ Finish(t, "ValueError", NoVal)
            /\ UNCHANGED <<slot, DiskVars, ncalls>>
       ELSE /\ loc' = [loc EXCEPT ![t].dir = slot["prod"].dir]
            /\ Goto(t, "m_run")
            /\ UNCHANGED <<slot, DiskVars, touched>>

\* run_check(govulners ...) with that environment: the matches, or CommandException;
\* get_govulners_version runs the version command without the database directory
RunGovulners(t) ==
    /\ pc[t] = "m_run"
    /\ \/ Finish(t, "CommandException", NoVal)
       \/ Finish(t, None, IF call[t].op = "version" THEN [kind |-> "version"]
                           ELSE [kind |-> "matches", dir |-> loc[t].dir])
    /\ UNCHANGED <<slot, DiskVars, ncalls>>

-----------------------------------------------------------------------------
(* query_record_source_counts(use_staging) and query_vulnerabilities, inside *)
(* the read lock:                                                            *)
(* govulners_session_scope calls the slot's session maker, the query runs,   *)
(* then get_govulners_db_metadata(use_staging) gives last_synced.            *)

SessionScope(t) ==
    /\ pc[t] = "c_session"
    /\ LET sm == slot[SlotOf(t)].sm
       IN IF sm = NoDesc
          THEN \* prod: the getter raises ValueError; staging: None() raises TypeError
               /\ Finish(t, IF call[t].staging THEN "TypeError" ELSE "ValueError", NoVal)
               /\ UNCHANGED <<slot, DiskVars, ncalls>>
          ELSE IF call[t].op = "query"
          THEN \* query_vulnerabilities: query.all() and return
               /\ Finish(t, None, [kind |-> "rows", sm |-> sm])
               /\ UNCHANGED <<slot, DiskVars, ncalls>>
          ELSE /\ loc' = [loc EXCEPT ![t].sm = sm]
               /\ Goto(t, "md_dir")
               /\ UNCHANGED <<slot, DiskVars, touched>>

-----------------------------------------------------------------------------
(* get_current_govulners_db_checksum: the base name of the production        *)
(* directory; the _govulners_db_dir getter raises when the field is unset.   *)

GetCurrentChecksum(t) ==
    /\ pc[t] = "cs_dir"
    /\ IF slot["prod"].dir = None
       THEN Finish(t, "ValueError", NoVal)
       ELSE Finish(t, None, [kind |-> "checksum", checksum |-> slot["prod"].dir])
    /\ UNCHANGED <<slot, DiskVars, ncalls>>

-----------------------------------------------------------------------------
\* The steps of update_govulners_db under the write lock, before its read-back.
UpdateBody(t) ==
    \/ MoveArchive(t)
    \/ OpenArchive(t)
    \/ RemoveArchive(t)
    \/ WriteEngineMetadata(t)
    \/ InitEngine(t)
    \/ SetDir(t)
    \/ SetVersion(t)
    \/ SetSessionMaker(t)

\* _get_metadata_file_contents, whoever calls it.
MetadataBody(t) ==
    \/ ReadDirField(t)
    \/ ReadVersionField(t)
    \/ ReadMetadataFile(t)

\* The steps of the operations under the read lock.
ReaderBody(t) ==
    \/ GetEnvVariables(t)
    \/ RunGovulners(t)
    \/ SessionScope(t)

\* The steps of the operations that take no lock.
UnlockedBody(t) ==
    \/ UnstageDir(t)
    \/ UnstageVersion(t)
    \/ UnstageSessionMaker(t)
    \/ GetCurrentChecksum(t)

\* The end of an acquire: the lock is taken, or the timeout has run out.
Acquire(t) == ReadAcquire(t) \/ WriteAcquire(t) \/ AcquireTimeout(t)

Next ==
    \E t \in Threads :
        \/ StartCall(t)
        \/ Acquire(t)
        \/ Tick(t)
        \/ UpdateBody(t)
        \/ MetadataBody(t)
        \/ ReaderBody(t)
        \/ UnlockedBody(t)

Spec == Init /\ [][Next]_vars

-----------------------------------------------------------------------------
(* The operations that take the lock, alone: production installs, matching   *)
(* and counting.  Time passes for a blocked acquire and the acquire returns  *)
(* when it can; nothing obliges a holder to go on, so a holder may keep the  *)
(* lock for ever.                                                            *)

LockCalls == {c \in UpdateCalls \cup ReaderCalls : ~c.staging}

StartLockCall(t) == StartWith(t, LockCalls)

NextLock ==
    \E t \in Threads :
        \/ StartLockCall(t)
        \/ Acquire(t)
        \/ Tick(t)
        \/ UpdateBody(t)
        \/ MetadataBody(t)
        \/ ReaderBody(t)

LockSpec ==
    /\ Init
    /\ [][NextLock]_vars
    /\ \A t \in Threads : WF_vars(Tick(t)) /\ WF_vars(Acquire(t))

-----------------------------------------------------------------------------
(* MetadataSyncUtils.sync_metadata.  One caller, one thread-scoped session.  *)
(* The session (sqlalchemy, not part of the sources) is modelled by what a   *)
(* transaction does: flush sends the pending changes into the open           *)
(* transaction, commit makes the transaction's records the database's,       *)
(* rollback drops them; a flush that fails rolls the transaction back and    *)
(* leaves the session unusable until Session.rollback() is called.           *)

\* _pivot_and_filter_feeds_by_config: the records (here their names) whose
\* name is both requested and reported upstream.
PivotAndFilterFeedsByConfig(to_sync, source_found, db_found) ==
    {f \in Feeds : db_found[f].present /\ f \in (to_sync \cap source_found)}

\* FeedMetadata(name, description, access_tier, enabled=True)
\* Mutant: the new feed record is created disabled.
NewFeedDisabled(api, n) ==
    [NoFeed EXCEPT !.present = TRUE, !.description = api.description,
                   !.access_tier = api.access_tier, !.enabled = FALSE, !.born = n]

NewFeed(api, n) ==
    [NoFeed EXCEPT !.present = TRUE, !.description = api.description,
                   !.access_tier = api.access_tier, !.enabled = TRUE, !.born = n]

\* FeedGroupMetadata(name, description, access_tier, feed, enabled=True), last_sync = None
NewGroup(api_group, n) ==
    [NoGroup EXCEPT !.present = TRUE, !.description = api_group.description,
                    !.access_tier = api_group.access_tier, !.enabled = TRUE,
                    !.last_sync = None, !.born = n]

\* Mutant: the group is merged from the upstream record, which resets last_sync.
UpsertGroupByMerge(db_group, api_group, n) ==
    [NewGroup(api_group, n) EXCEPT !.enabled = IF db_group.present THEN db_group.enabled ELSE TRUE,
                                   !.born = IF db_group.present THEN db_group.born ELSE n]

\* One pass of the loop over the upstream groups: create the group if the feed
\* has none of that name, then set its access_tier and description.
UpsertGroup(db_group, api_group, n) ==
    [(IF db_group.present THEN db_group ELSE NewGroup(api_group, n))
        EXCEPT !.access_tier = api_group.access_tier,
               !.description = api_group.description]

\* The loop of _sync_feed_group_metadata from entry i on: the feed record it
\* leaves and the error that ended it (None: ran to the end).
RECURSIVE SyncGroups(_, _, _, _)
SyncGroups(db_feed, api_groups, i, n) ==
    IF i > Len(api_groups) THEN [feed |-> db_feed, err |-> None]
    ELSE IF ~api_groups[i].ok THEN [feed |-> db_feed, err |-> "AttributeError"]
    ELSE LET g == api_groups[i].name
         IN SyncGroups([db_feed EXCEPT !.groups[g] = UpsertGroup(@, api_groups[i], n)],
                       api_groups, i + 1, n)

\* Mutant: a reconciliation that raises leaves the feed's record as it found it.
SyncFeedGroupMetadataUndone(s, api, n, broken) ==
    IF broken THEN [sess |-> s, err |-> "InvalidRequestError", broken |-> TRUE]
    ELSE LET updated == [s[api.name] EXCEPT !.description = api.description,
                                            !.access_tier = api.access_tier]
             out == SyncGroups(updated, api.groups, 1, n)
         IN [sess |-> IF out.err = None THEN [s EXCEPT ![api.name] = out.feed] ELSE s,
             err |-> out.err, broken |-> FALSE]

\* _sync_feed_group_metadata: set the feed's description and access_tier, then
\* the groups.  Reading db_feed.groups needs the session.
SyncFeedGroupMetadata(s, api, n, broken) ==
    IF broken THEN [sess |-> s, err |-> "InvalidRequestError", broken |-> TRUE]
    ELSE LET updated == [s[api.name] EXCEPT !.description = api.description,
                                            !.access_tier = api.access_tier]
             out == SyncGroups(updated, api.groups, 1, n)
         IN [sess |-> [s EXCEPT ![api.name] = out.feed], err |-> out.err,
             broken |-> FALSE]

\* _sync_feed_metadata: a feed that db_feeds does not hold is added and
\* flushed; the flush fails when the session is unusable, when a record of
\* that name exists (the insert breaks the key) and when the database fails
\* (dbfail).  A failed flush rolls the transaction back to the committed
\* records and leaves the session unusable until rollback().
SyncFeedMetadata(s, committed, api, db_feeds, n, broken, dbfail) ==
    IF api.name \in db_feeds THEN [sess |-> s, err |-> None, broken |-> broken]
    ELSE IF broken THEN [sess |-> s, err |-> "InvalidRequestError", broken |-> TRUE]
    ELSE IF s[api.name].present
         THEN [sess |-> committed, err |-> "IntegrityError", broken |-> TRUE]
    ELSE IF dbfail
         THEN [sess |-> committed, err |-> "OperationalError", broken |-> TRUE]
    ELSE [sess |-> [s EXCEPT ![api.name] = NewFeed(api, n)], err |-> None,
          broken |-> FALSE]

\* The try block of the loop body for one entry of source_feeds.
TryFeed(s, committed, api, input, db_feeds, n, broken, dbfail) ==
    IF ~api.meta THEN [sess |-> s, err |-> "KeyError", broken |-> broken]
    ELSE LET m == SyncFeedMetadata(s, committed, api, db_feeds, n, broken, dbfail)
         IN IF m.err # None \/ ~input.groups THEN m
            ELSE SyncFeedGroupMetadata(m.sess, api, n, m.broken)

\* The call returns or raises: result r.  The arguments are remembered when the
\* caller is going to repeat a call that returned.
EndSync(r) ==
    /\ sres' = r
    /\ sync' = IF sync.again /\ ~hist.repeat /\ r.err = None
               THEN [IdleSync EXCEPT !.input = sync.input, !.again = TRUE]
               ELSE IdleSync
    /\ hist' = NoHist
    /\ UNCHANGED <<WrapperVars, FeedVars>>

\* sync_metadata(source_feeds, to_sync, groups) is entered; `if not to_sync`
\* returns ({}, []) at once, otherwise the session is taken.
BeginSync(input, again, repeat) ==
    /\ nsync' = nsync + 1
    /\ IF input.to_sync = {}
       THEN /\ sres' = NoSyncResult
            /\ sync' = IdleSync
            /\ hist' = NoHist
       ELSE /\ sync' = [IdleSync EXCEPT !.pc = "load", !.input = input, !.again = again]
            /\ hist' = [start |-> db, repeat |-> repeat,
                        res |-> IF repeat THEN sres ELSE NoSyncResult]
            /\ sres' = NoSyncResult
    /\ UNCHANGED <<db, sess, WrapperVars, FeedVars>>

StartSync ==
    /\ sync.pc = "idle"
    /\ ~sync.again
    /\ nsync < MaxSyncs
    /\ \E source \in SourceFeeds, to_sync \in SUBSET Feeds, groups, again \in BOOLEAN :
          BeginSync([source |-> source, to_sync |-> to_sync, groups |-> groups],
                    again, FALSE)

\* The caller calls again with the arguments of the call that just returned.
Resync ==
    /\ sync.pc = "idle"
    /\ sync.again
    /\ nsync < MaxSyncs
    /\ BeginSync(sync.input, FALSE, TRUE)

\* An exception outside the per-feed try: on to the outer except clause.
Escape(e) ==
    /\ sync' = [sync EXCEPT !.pc = "rollback", !.err = e]
    /\ UNCHANGED <<db, sess, sres, nsync, hist, WrapperVars, FeedVars>>

\* db_feeds = _pivot_and_filter_feeds_by_config(to_sync, keys, get_all_feeds(db))
LoadFeeds ==
    /\ sync.pc = "load"
    /\ \/ Escape("OperationalError")
       \/ /\ sync' = [sync EXCEPT
                !.db_feeds = PivotAndFilterFeedsByConfig(
                                sync.input.to_sync, SourceNames(sync.input.source), sess),
                !.i = 1,
                !.pc = IF Len(sync.input.source) = 0 THEN "reload" ELSE "feed"]
          /\ UNCHANGED <<db, sess, sres, nsync, hist, WrapperVars, FeedVars>>

\* The try / except of the loop body for source_feeds entry i: an exception
\* is appended to failed as (feed_name, e).
ReconcileFeed ==
    /\ sync.pc = "feed"
    /\ \E dbfail \in BOOLEAN :
       LET api == sync.input.source[sync.i]
           out == TryFeed(sess, db, api, sync.input, sync.db_feeds, nsync,
                          sync.broken, dbfail)
       IN /\ sess' = out.sess
          /\ sync' = [sync EXCEPT
                !.pc = "flush",
                !.broken = out.broken,
                !.failed = IF out.err = None THEN @ ELSE Append(@, <<api.name, out.err>>)]
    /\ UNCHANGED <<db, sres, nsync, hist, WrapperVars, FeedVars>>

\* finally: db.flush().  It raises when the database fails and, on an unusable
\* session, when there is something to flush; otherwise the loop goes on.
FlushFeed ==
    /\ sync.pc = "flush"
    /\ \/ Escape(IF sync.broken THEN "InvalidRequestError" ELSE "OperationalError")
       \/ /\ sync' = [sync EXCEPT
                !.i = @ + 1,
                !.pc = IF sync.i < Len(sync.input.source) THEN "feed" ELSE "reload"]
          /\ UNCHANGED <<db, sess, sres, nsync, hist, WrapperVars, FeedVars>>

\* The reload of db_feeds after the loop: a query, which an unusable session refuses.
Reload ==
    /\ sync.pc = "reload"
    /\ \/ Escape(IF sync.broken THEN "InvalidRequestError" ELSE "OperationalError")
       \/ /\ ~sync.broken
          /\ sync' = [sync EXCEPT
                !.db_feeds = PivotAndFilterFeedsByConfig(
                                sync.input.to_sync, SourceNames(sync.input.source), sess),
                !.pc = "commit"]
          /\ UNCHANGED <<db, sess, sres, nsync, hist, WrapperVars, FeedVars>>

\* db.commit(), then return db_feeds, failed
Commit ==
    /\ sync.pc = "commit"
    /\ \/ Escape("OperationalError")
       \/ /\ db' = sess
          /\ EndSync([err |-> None, feeds |-> sync.db_feeds, failed |-> sync.failed])
          /\ UNCHANGED <<sess, nsync>>

\* Mutant: the outer except clause re-raises without db.rollback().
RaiseWithoutRollback ==
    /\ sync.pc = "rollback"
    /\ EndSync([err |-> sync.err, feeds |-> {}, failed |-> <<>>])
    /\ UNCHANGED <<db, sess, nsync>>

\* except Exception: db.rollback(); raise
Rollback ==
    /\ sync.pc = "rollback"
    /\ sess' = db
    /\ EndSync([err |-> sync.err, feeds |-> {}, failed |-> <<>>])
    /\ UNCHANGED <<db, nsync>>

\* The process of SyncSpec: a database some earlier syncs left, a fresh wrapper.
InitSync ==
    /\ InitFresh
    /\ db \in InitialDbs
    /\ sess = db
    /\ sync = IdleSync
    /\ sres = NoSyncResult
    /\ nsync = 0
    /\ hist = NoHist
    /\ FeedQuiet

NextSync ==
    \/ StartSync
    \/ Resync
    \/ LoadFeeds
    \/ ReconcileFeed
    \/ FlushFeed
    \/ Reload
    \/ Commit
    \/ Rollback

SyncSpec == InitSync /\ [][NextSync]_vars

-----------------------------------------------------------------------------
(* The SyncUtilProvider functions.  They are static and keep no state: each  *)
(* call is one step from its arguments to its result.                        *)

\* The elements of a sequence.
Range(q) == {q[i] : i \in 1..Len(q)}

\* The groups of a FeedMetadata record (f.metadata.groups), as a list.
RECURSIVE GroupsOf(_, _, _)
GroupsOf(feed_name, metadata, names) ==
    IF names = {} THEN <<>>
    ELSE LET g == CHOOSE x \in names : TRUE
             rest == GroupsOf(feed_name, metadata, names \ {g})
         IN IF metadata.groups[g].present
            THEN <<[feed_name |-> feed_name, name |-> g,
                    enabled |-> metadata.groups[g].enabled]>> \o rest
            ELSE rest

\* Mutant: every group is appended, enabled or not.
EveryGroup(groups) == groups

\* `if g.enabled: groups_to_download.append(g)` over a list of groups.
EnabledOnly(groups) == SelectSeq(groups, LAMBDA g : g.enabled)

\* LegacySyncUtilProvider.get_groups_to_download, the loop from entry i on.
RECURSIVE LegacyGroupsToDownload(_, _)
LegacyGroupsToDownload(feeds_to_sync, i) ==
    IF i > Len(feeds_to_sync) THEN <<>>
    ELSE LET f == feeds_to_sync[i]
             here == IF f.metadata.present /\ f.metadata.enabled
                     THEN EnabledOnly(GroupsOf(f.name, f.metadata, GroupNames))
                     ELSE <<>>
         IN here \o LegacyGroupsToDownload(feeds_to_sync, i + 1)

\* A provider function is called with args and returns out or raises err;
\* after is what the call has made of the objects it was given.
Provide(op, args, out, after, err) ==
    /\ prov.op = "none"
    /\ prov' = [op |-> op, args |-> args, out |-> out, after |-> after, err |-> err]
    /\ UNCHANGED <<WrapperVars, SyncVars, http, fetch, up, qry, single>>

LegacyGetGroupsToDownload ==
    /\ prov.op = "none"
    /\ \E feeds \in FeedsToSync :
        LET args == [feeds_to_sync |-> feeds]
        IN Provide("legacy_get_groups_to_download", args,
                   LegacyGroupsToDownload(feeds, 1), args, None)

\* Mutant: the synthetic group is returned whether the feed is enabled or not.
SyntheticGroupsAlways(api_feed_group, feed_name, feed_metadata) ==
    <<[name |-> api_feed_group.name, feed_name |-> feed_name,
       description |-> api_feed_group.description,
       access_tier |-> api_feed_group.access_tier, enabled |-> TRUE]>>

\* groups_to_download of GovulnersDBSyncUtilProvider.get_groups_to_download:
\* FeedGroupMetadata(name, feed_name, description, access_tier, enabled=True),
\* built without the feed attribute and not added to the session.
SyntheticGroups(api_feed_group, feed_name, feed_metadata) ==
    IF feed_metadata.enabled
    THEN <<[name |-> api_feed_group.name, feed_name |-> feed_name,
            description |-> api_feed_group.description,
            access_tier |-> api_feed_group.access_tier, enabled |-> TRUE]>>
    ELSE <<>>

\* GovulnersDBSyncUtilProvider.get_groups_to_download(source_feeds, feeds_to_sync)
GovulnersGetGroupsToDownload ==
    /\ prov.op = "none"
    /\ \E groups \in SourceGroups, feeds \in FeedsToSync :
        LET args == [groups |-> groups, feeds_to_sync |-> feeds]
        IN IF groups = <<>> \/ feeds = <<>>
           THEN Provide("govulners_get_groups_to_download", args, <<>>, args, "IndexError")
           ELSE IF ~feeds[1].metadata.present
           THEN Provide("govulners_get_groups_to_download", args, <<>>, args, "AttributeError")
           ELSE Provide("govulners_get_groups_to_download", args,
                        SyntheticGroups(groups[1], feeds[1].name, feeds[1].metadata),
                        args, None)

\* Mutant: the status and the image count are those of the first group result.
GroupResultWithStatus(first_group, group_metadata) ==
    [group |-> group_metadata.name, status |-> first_group.status,
     total_time_seconds |-> first_group.total_time_seconds,
     updated_record_count |-> 1, updated_image_count |-> first_group.updated_image_count]

\* Mutant: the first group result is returned as it is.
FirstGroupResult(first_group, group_metadata) == first_group

\* GroupSyncResult(group=group_metadata.name, status="success",
\*                 total_time_seconds=first_group.total_time_seconds,
\*                 updated_record_count=1, updated_image_count=0)
AggregateGroupResult(first_group, group_metadata) ==
    [group |-> group_metadata.name, status |-> "success",
     total_time_seconds |-> first_group.total_time_seconds,
     updated_record_count |-> 1, updated_image_count |-> 0]

\* GovulnersDBSyncUtilProvider.retrieve_group_result(feed_sync_results, group_metadata)
GovulnersRetrieveGroupResult ==
    /\ prov.op = "none"
    /\ \E results \in FeedSyncResultLists, name \in {"g1", "g3"} :
        LET args == [feed_sync_results |-> results, group_metadata |-> [name |-> name]]
        IN IF results = <<>> \/ results[1].groups = <<>>
           THEN Provide("govulners_retrieve_group_result", args, <<>>, args, "ValueError")
           ELSE Provide("govulners_retrieve_group_result", args,
                        <<AggregateGroupResult(results[1].groups[1], args.group_metadata)>>,
                        args, None)

\* GovulnersDBSyncUtilProvider.update_feed_result(feed_result, sync_results, group_result)
GovulnersUpdateFeedResult ==
    /\ prov.op = "none"
    /\ \E results \in FeedSyncResultLists, old \in GroupResultLists :
        LET args == [feed_result |-> [groups |-> old], sync_results |-> results]
        IN /\ Len(old) <= 1
           /\ IF results = <<>>
              THEN Provide("govulners_update_feed_result", args, <<>>, args, "ValueError")
              ELSE Provide("govulners_update_feed_result", args, <<>>,
                           [args EXCEPT !.feed_result.groups = results[1].groups], None)

\* A process that calls one provider function, over a database earlier syncs left.
NextProvider ==
    \/ LegacyGetGroupsToDownload
    \/ GovulnersGetGroupsToDownload
    \/ GovulnersRetrieveGroupResult
    \/ GovulnersUpdateFeedResult

ProviderSpec == InitSync /\ [][NextProvider]_vars

-----------------------------------------------------------------------------
(* HTTPBasicAuthClient.execute_request.  Each pass of the while loop is one  *)
(* step, with whatever the upstream answers.                                 *)

\* The entry of execute_request(method, url, retries=given) on a client built
\* with retries=configured (0: None): `if not retries` takes max_retries of
\* auth_config, which __init__ set from its own retries when that was given.
BeginRequest(owner, url, given, configured) ==
    http' = [IdleHttp EXCEPT
                !.pc = "loop", !.owner = owner, !.url = url,
                !.given = given, !.configured = configured,
                !.retries = IF given # 0 THEN given
                            ELSE IF configured # 0 THEN configured
                            ELSE DefaultMaxRetries]

\* _map_error_to_exception for a 4xx response that raise_for_status() raised
\* on; the else branch reads exc.response.body, which a Response does not have.
MapErrorToException(status) ==
    IF status = 401 THEN "InvalidCredentialsError"
    ELSE IF status = 403 THEN "InsufficientAccessTierError"
    ELSE "AttributeError"

\* Mutant: the loop goes on while count < retries, success or not.
AttemptAllowedAfterSuccess == http.pc = "loop" /\ http.count < http.retries

\* `while not success and count < retries`
AttemptAllowed == http.pc = "loop" /\ ~http.success /\ http.count < http.retries

\* One pass of the loop: the request gets outcome o, and a 200 carries body.
AttemptWith(o, body) ==
    LET counted == [http EXCEPT !.count = @ + 1, !.tried = Append(@, o.status)]
    IN IF o.status \in {401, 403, 404}
       THEN [counted EXCEPT !.pc = "done", !.err = MapErrorToException(o.status)]
       ELSE IF o.status = 0
       THEN [counted EXCEPT !.resp.content = [kind |-> "server error", val |-> 0]]
       ELSE LET marked == IF o.status = 200
                          THEN [counted EXCEPT !.success = TRUE, !.resp.success = TRUE]
                          ELSE counted
            IN IF o.ctype = None
               THEN [marked EXCEPT !.resp.status_code = o.status,
                                   !.resp.content = [kind |-> "server error", val |-> 0]]
               ELSE [marked EXCEPT !.resp.status_code = o.status,
                                   !.resp.content_type = o.ctype,
                                   !.resp.content = IF o.status = 200 THEN body
                                                    ELSE [kind |-> "error page", val |-> 0]]

\* `return client_response`
ReturnResponse ==
    /\ http.pc = "loop"
    /\ http.success \/ http.count >= http.retries
    /\ http' = [http EXCEPT !.pc = "done"]
    /\ UNCHANGED <<WrapperVars, SyncVars, prov, fetch, up, qry, single>>

\* A caller other than the feed clients calls execute_request.
StartRequest ==
    /\ http.pc \in {"idle", "done"}
    /\ \E given \in 0..MaxRetries, configured \in {0, MaxRetries} :
          BeginRequest("caller", [kind |-> "any", at |-> 0], given, configured)
    /\ UNCHANGED <<WrapperVars, SyncVars, prov, fetch, up, qry, single>>

Attempt ==
    /\ AttemptAllowed
    /\ http.owner = "caller"
    /\ \E o \in Outcomes : http' = AttemptWith(o, [kind |-> "body", val |-> 0])
    /\ UNCHANGED <<WrapperVars, SyncVars, prov, fetch, up, qry, single>>

NextRequest ==
    \/ StartRequest
    \/ Attempt
    \/ ReturnResponse

\* Every request is answered or times out (the timeout argument of method),
\* so a pass of the loop that can be taken is taken.
RequestSpec ==
    /\ Init
    /\ [][NextRequest]_vars
    /\ WF_vars(Attempt)
    /\ WF_vars(ReturnResponse)

-----------------------------------------------------------------------------
(* FeedServiceClient: list_feeds, list_feed_groups, get_feed_group_data.     *)
(* Each runs execute_request(requests.get, url, retries=self.retry_count)    *)
(* and goes on when it returns or raises.                                    *)

\* What the upstream puts in the body of a 200 response for a url.
Serve(url) ==
    IF url.kind \in {"feeds", "groups"} THEN [kind |-> "page", val |-> url.at]
    ELSE IF url.kind = "listing" THEN [kind |-> "listing", val |-> up.manifest]
    ELSE IF url.kind = "db" THEN [kind |-> "db", val |-> url.at]
    ELSE [kind |-> "data", val |-> url.at]

\* The operation ends: it returns out or raises err.
FetchEnds(out, err) == [fetch EXCEPT !.pc = "done", !.out = out, !.err = err]

\* The url of the next request of the operation.
FetchUrl ==
    IF fetch.op = "list_feeds" THEN [kind |-> "feeds", at |-> fetch.token]
    ELSE IF fetch.op = "list_feed_groups" THEN [kind |-> "groups", at |-> fetch.token]
    ELSE IF fetch.op = "get_feed_group_data" THEN [kind |-> "data", at |-> 0]
    ELSE IF fetch.stage = "listing" THEN [kind |-> "listing", at |-> 0]
    ELSE [kind |-> "db", at |-> fetch.entry]

\* A fetch operation of FeedServiceClient is called, the feed service having
\* some listing.  (The response object of the call before is dropped.)
StartFetch ==
    /\ fetch.pc \in {"idle", "done"}
    /\ http.pc \in {"idle", "done"}
    /\ \E op \in {"list_feeds", "list_feed_groups", "get_feed_group_data"},
          pages \in UpstreamPages :
          /\ fetch' = [IdleFetch EXCEPT !.pc = "request", !.op = op,
                                        !.listed = fetch.listed]
          /\ up' = [up EXCEPT !.pages = pages]
    /\ http' = IdleHttp
    /\ UNCHANGED <<WrapperVars, SyncVars, prov, qry, single>>

\* self.http_client.execute_request(requests.get, url, retries=self.retry_count)
FetchRequest ==
    /\ fetch.pc = "request"
    /\ Len(fetch.asked) < MaxFetches
    /\ BeginRequest("fetch", FetchUrl, RetryCount, 0)
    /\ fetch' = [fetch EXCEPT !.pc = "wait", !.asked = Append(@, FetchUrl)]
    /\ UNCHANGED <<WrapperVars, SyncVars, prov, up, qry, single>>

\* One pass of the request loop for the operation's url.
FetchAttempt ==
    /\ AttemptAllowed
    /\ http.owner = "fetch"
    /\ \E o \in Outcomes : http' = AttemptWith(o, Serve(http.url))
    /\ UNCHANGED <<WrapperVars, SyncVars, prov, fetch, up, qry, single>>

\* list_feeds, one page: only `if data and "feeds" in data` extends the list
\* and reads next_token; otherwise more_data and next_token stay as they are.
ListFeedsPage(page) ==
    IF page.key
    THEN LET acc == fetch.acc \o page.recs
         IN IF page.next # 0
            THEN [fetch EXCEPT !.pc = "request", !.acc = acc, !.token = page.next]
            ELSE [FetchEnds(acc, None) EXCEPT !.acc = acc]
    ELSE [fetch EXCEPT !.pc = "request"]

\* list_feed_groups, one page: `if "groups" in data` extends the list, and
\* next_token is read in either case.
ListGroupsPage(page) ==
    LET acc == IF page.key THEN fetch.acc \o page.recs ELSE fetch.acc
    IN IF page.next # 0
       THEN [fetch EXCEPT !.pc = "request", !.acc = acc, !.token = page.next]
       ELSE [FetchEnds(acc, None) EXCEPT !.acc = acc]

\* What a FeedServiceClient operation does with the returned record.
FeedServiceResume(record) ==
    IF ~record.success THEN FetchEnds(<<>>, "Exception")
    ELSE IF fetch.op = "get_feed_group_data"
    THEN IF record.content_type # "application/json"
         THEN FetchEnds(<<>>, "UnexpectedMIMEType")
         ELSE FetchEnds(<<record.content>>, None)
    ELSE IF record.content.kind # "page" THEN FetchEnds(<<>>, "JSONDecodeError")
    ELSE IF fetch.op = "list_feeds"
    THEN ListFeedsPage(PageAt(up.pages, record.content.val))
    ELSE ListGroupsPage(PageAt(up.pages, record.content.val))

FeedServiceOps == {"list_feeds", "list_feed_groups", "get_feed_group_data"}

\* execute_request has returned or raised: the operation goes on.
FetchResume ==
    /\ fetch.pc = "wait"
    /\ http.pc = "done"
    /\ fetch.op \in FeedServiceOps
    /\ fetch' = IF http.err # None THEN FetchEnds(<<>>, http.err)
                ELSE FeedServiceResume(http.resp)
    /\ UNCHANGED <<WrapperVars, SyncVars, prov, http, up, qry, single>>

-----------------------------------------------------------------------------
(* GovulnersDBServiceClient: list_feed_groups and get_feed_group_data, both  *)
(* of which download listing.json first (_list_feed_groups).                 *)

GovulnersOps == {"govulners_list_feed_groups", "govulners_get_feed_group_data"}

\* The upstream service publishes another listing.json: between two calls,
\* or between the listing request and the download of one call.  (While a
\* request is retried, only what is served to the attempt that succeeds counts.)
UpstreamPublishes ==
    /\ fetch.op \notin FeedServiceOps
    /\ fetch.pc \in {"idle", "done", "request"}
    /\ \E m \in Manifests \ {up.manifest} : up' = [up EXCEPT !.manifest = m]
    /\ UNCHANGED <<WrapperVars, SyncVars, prov, http, fetch, qry, single>>

\* A fetch operation of GovulnersDBServiceClient is called.  (The response
\* object of the call before is dropped.)
StartGovulnersFetch ==
    /\ fetch.pc \in {"idle", "done"}
    /\ http.pc \in {"idle", "done"}
    /\ \E op \in GovulnersOps :
          fetch' = [IdleFetch EXCEPT !.pc = "request", !.op = op, !.listed = fetch.listed]
    /\ up' = [up EXCEPT !.pages = NoUpstream.pages]
    /\ http' = IdleHttp
    /\ UNCHANGED <<WrapperVars, SyncVars, prov, qry, single>>

\* Mutant: only a missing key counts as no database.
KeyMissing(available_dbs) == ~available_dbs.has

\* `if not available_dbs`: the key is missing or its list is empty.
NotAvailable(available_dbs) == ~available_dbs.has \/ available_dbs.dbs = <<>>

\* _list_feed_groups after the listing request returned listing_response,
\* the installed govulners reporting supportedDbSchema version (or failing).
\* The entry found is returned by list_feed_groups and is what
\* _get_feed_group_data downloads next.
ListingResume(listing_response, version) ==
    IF ~listing_response.success THEN FetchEnds(<<>>, "HTTPStatusException")
    ELSE IF listing_response.content.kind # "listing"
    THEN FetchEnds(<<>>, "JSONDecodeError")
    ELSE IF version = "error"
    THEN [FetchEnds(<<>>, "GovulnersVersionCommandError") EXCEPT
             !.seen = listing_response.content.val]
    ELSE LET listings_json == listing_response.content.val
             available_dbs == listings_json[version]
             found == [fetch EXCEPT !.seen = listings_json, !.version = version]
         IN IF NotAvailable(available_dbs)
            THEN [found EXCEPT !.pc = "done", !.err = "GovulnersDBUnavailable"]
            ELSE IF available_dbs.dbs = <<>>
            THEN [found EXCEPT !.pc = "done", !.err = "IndexError"]
            ELSE IF fetch.op = "govulners_list_feed_groups"
            THEN [found EXCEPT !.pc = "done", !.entry = available_dbs.dbs[1],
                               !.out = <<available_dbs.dbs[1]>>,
                               !.listed = available_dbs.dbs[1]]
            ELSE [found EXCEPT !.pc = "request", !.stage = "db",
                               !.entry = available_dbs.dbs[1]]

\* Mutant: the metadata is that of the listing an earlier list_feed_groups returned.
ResponseMetadataOfEarlierListing == fetch.listed

\* response_metadata: checksum, built and version of listing_json, the entry
\* _get_feed_group_data found and downloaded.
ResponseMetadata == fetch.entry

\* get_feed_group_data after the download returned record.
DownloadResume(record) ==
    IF ~record.success THEN FetchEnds(<<>>, "HTTPStatusException")
    ELSE IF record.content_type # "application/x-tar"
    THEN FetchEnds(<<>>, "UnexpectedMIMEType")
    ELSE FetchEnds(<<[data |-> record.content, next_token |-> 0, record_count |-> 1,
                      response_metadata |-> ResponseMetadata]>>, None)

\* execute_request has returned or raised: the operation goes on.
GovulnersResume ==
    /\ fetch.pc = "wait"
    /\ http.pc = "done"
    /\ fetch.op \in GovulnersOps
    /\ IF http.err # None THEN fetch' = FetchEnds(<<>>, http.err)
       ELSE IF fetch.stage = "listing"
       THEN \E version \in Schemas \cup {"error"} :
               fetch' = ListingResume(http.resp, version)
       ELSE fetch' = DownloadResume(http.resp)
    /\ UNCHANGED <<WrapperVars, SyncVars, prov, http, up, qry, single>>

NextClient ==
    \/ StartFetch
    \/ StartGovulnersFetch
    \/ UpstreamPublishes
    \/ FetchRequest
    \/ FetchAttempt
    \/ ReturnResponse
    \/ FetchResume
    \/ GovulnersResume

ClientSpec == Init /\ [][NextClient]_vars

-----------------------------------------------------------------------------
(* query_vulnerabilities.  The call holds the read side of the lock and    *)
(* opens a session of the production slot's session maker, which raises    *)
(* ValueError when no database was installed.  A str argument is wrapped   *)
(* into a one-element list.  The query selects (GovulnersVulnerability,    *)
(* GovulnersVulnerabilityMetadata) pairs and outer-joins to                *)
(* GovulnersVulnerability on equal id and namespace: the left side of the  *)
(* join is the other selected table, vulnerability_metadata, so the FROM   *)
(* clause is vulnerability_metadata LEFT OUTER JOIN vulnerability.  Each   *)
(* filter is added only when its argument is not None, and each is on a    *)
(* column of GovulnersVulnerability.                                       *)

\* type(x) == str: x = [x]
AsList(arg) == IF arg.kind = "str" THEN ListArg(<<arg.str>>) ELSE arg

Joined(v, m) == v.id = m.id /\ v.namespace = m.namespace

\* vulnerability_metadata LEFT OUTER JOIN vulnerability ON id and namespace
OuterJoin(tables) ==
    {[vulnerability |-> v, metadata |-> m] :
        <<v, m>> \in {p \in tables.vulnerability \X tables.vulnerability_metadata :
                        Joined(p[1], p[2])}}
    \cup
    {[vulnerability |-> NoVulnerability, metadata |-> m] :
        m \in {n \in tables.vulnerability_metadata :
                 \A v \in tables.vulnerability : ~Joined(v, n)}}

\* column.in_(list) on a row; NULL IN (...) is not true
In(column, list) == column # None /\ column \in Range(list)

QueryVulnerabilities(tables, vuln_id, affected_package, namespace) ==
    LET ids == AsList(vuln_id)
        nss == AsList(namespace)
    IN {r \in OuterJoin(tables) :
          /\ (ids.kind # "none") => In(r.vulnerability.id, ids.list)
          /\ (nss.kind # "none") => In(r.vulnerability.namespace, nss.list)
          /\ (affected_package # None)
                => r.vulnerability.package_name = affected_package}

\* One call on the database as it stands; what it returns depends on the
\* tables and the arguments only.
RunQuery ==
    /\ ~qry.last.called
    /\ writer = None
    /\ \E vuln_id \in ArgsOf(VulnIds), namespace \in ArgsOf(Namespaces),
          affected_package \in PackageNames \cup {None} :
          qry' = [qry EXCEPT !.last =
                    IF slot["prod"].sm = NoDesc
                    THEN [vuln_id |-> vuln_id, affected_package |-> affected_package,
                          namespace |-> namespace, called |-> TRUE,
                          out |-> {}, err |-> "ValueError"]
                    ELSE [vuln_id |-> vuln_id, affected_package |-> affected_package,
                          namespace |-> namespace, called |-> TRUE,
                          out |-> QueryVulnerabilities(qry.tables, vuln_id,
                                                       affected_package, namespace),
                          err |-> None]]
    /\ UNCHANGED <<WrapperVars, SyncVars, prov, http, fetch, up, single>>

InitQuery ==
    /\ InitFresh \/ InitInstalled
    /\ SyncQuiet
    /\ prov = NoProv /\ http = IdleHttp /\ fetch = IdleFetch /\ up = NoUpstream
    /\ qry \in [tables : Tables, last : {NoQueryCall}]
    /\ single = Constructed

NextQuery == RunQuery

QuerySpec == InitQuery /\ [][NextQuery]_vars

-----------------------------------------------------------------------------
(* get_instance() and __new__.  __new__ tests the class attribute, creates *)
(* the instance, assigns the six slot fields and then the lock, each a     *)
(* separate statement with no lock around them; it returns whatever the    *)
(* class attribute holds at that moment.  A thread that has an instance    *)
(* may install: write_lock_access takes the lock object the class          *)
(* attribute names when it is entered, the setters assign on the instance. *)

SingleStep(t, p) ==
    /\ single.pc[t] = p
    /\ UNCHANGED <<WrapperVars, SyncVars, prov, http, fetch, up, qry>>

\* get_instance(): return GovulnersWrapperSingleton()
GetInstance(t) ==
    /\ SingleStep(t, "idle") \/ (SingleStep(t, "have") /\ single.held[t] = 0)
    /\ single' = [single EXCEPT !.pc[t] = "check", !.err[t] = None]

\* if cls._govulners_wrapper_instance is None:
CheckInstance(t) ==
    /\ SingleStep(t, "check")
    /\ single' = [single EXCEPT !.pc[t] = IF single.instance = 0 THEN "create" ELSE "ret"]

\* cls._govulners_wrapper_instance = super().__new__(cls)
CreateInstance(t) ==
    /\ SingleStep(t, "create")
    /\ single' = [single EXCEPT !.made = single.made + 1,
                                !.instance = single.made + 1,
                                !.mine[t] = single.made + 1,
                                !.pc[t] = "fields"]

\* cls._govulners_db_dir_internal = None ... (the six slot fields)
AssignFields(t) ==
    /\ SingleStep(t, "fields")
    /\ single' = [single EXCEPT !.fields = "None", !.pc[t] = "lock"]

\* cls._govulners_db_lock = rwlock.RWLockWrite()
AssignLock(t) ==
    /\ SingleStep(t, "lock")
    /\ single' = [single EXCEPT !.lock = single.mine[t], !.pc[t] = "ret"]

\* return cls._govulners_wrapper_instance
ReturnInstance(t) ==
    /\ SingleStep(t, "ret")
    /\ single' = [single EXCEPT !.got[t] = single.instance, !.pc[t] = "have"]

\* write_lock_access on the instance: self._govulners_db_lock is the class
\* attribute, missing until some __new__ has assigned it.
AcquireLock(t) ==
    /\ SingleStep(t, "have")
    /\ single.held[t] = 0
    /\ single.err[t] = None
    /\ IF single.lock = 0
       THEN single' = [single EXCEPT !.err[t] = "AttributeError"]
       ELSE /\ \A u \in Threads : single.held[u] # single.lock
            /\ single' = [single EXCEPT !.held[t] = single.lock]

\* the setters of update_govulners_db, on the instance the thread got
InstallOn(t) ==
    /\ SingleStep(t, "have")
    /\ single.held[t] # 0
    /\ ~single.installed[single.got[t]]
    /\ single' = [single EXCEPT !.installed[single.got[t]] = TRUE]

ReleaseLock(t) ==
    /\ SingleStep(t, "have")
    /\ single.held[t] # 0
    /\ single' = [single EXCEPT !.held[t] = 0]

\* What a slot field of instance i reads as: the instance attribute when an
\* install assigned it, else the class attribute.
SlotField(i) == IF single.installed[i] THEN "set" ELSE single.fields

InitInstance ==
    /\ InitFresh
    /\ SyncQuiet
    /\ prov = NoProv /\ http = IdleHttp /\ fetch = IdleFetch /\ up = NoUpstream
    /\ qry = NoQuery
    /\ single = NotConstructed

NextInstance ==
    \E t \in Threads :
        \/ GetInstance(t)
        \/ CheckInstance(t)
        \/ CreateInstance(t)
        \/ AssignFields(t)
        \/ AssignLock(t)
        \/ ReturnInstance(t)
        \/ AcquireLock(t)
        \/ InstallOn(t)
        \/ ReleaseLock(t)

InstanceSpec == InitInstance /\ [][NextInstance]_vars

-----------------------------------------------------------------------------
(* GovulnersScanner._is_only_nvd_namespace(namespace).  A string is a       *)
(* sequence of characters; the argument is a string, a list of strings or  *)
(* something else (None, a number).                                        *)

Chars == {"n", "v", "d", "N", "V", "D", "x"}

MaxNameLen == 4

Strings == UNION {[1..n -> Chars] : n \in 0..MaxNameLen}

\* The strings the lists are made of.
ListedStrings == {<<>>, <<"n", "v", "d">>, <<"x", "N", "v", "D">>, <<"n", "v", "x">>}

NamespaceArgs ==
    {[kind |-> "str", str |-> s, list |-> <<>>] : s \in Strings}
    \cup {[kind |-> "list", str |-> <<>>, list |-> l] :
            l \in UNION {[1..n -> ListedStrings] : n \in 0..3}}
    \cup {[kind |-> k, str |-> <<>>, list |-> <<>>] : k \in {"none", "int"}}

\* str.lower(), character by character
Lower(c) ==
    CASE c = "N" -> "n"
      [] c = "V" -> "v"
      [] c = "D" -> "d"
      [] OTHER -> c

LowerStr(s) == [i \in 1..Len(s) |-> Lower(s[i])]

\* sub in s
Contains(sub, s) ==
    \E i \in 1..(Len(s) - Len(sub) + 1) : SubSeq(s, i, i + Len(sub) - 1) = sub

\* The value returned, or the exception raised: namespace[0] of an empty list
\* raises IndexError.
IsOnlyNvdNamespace(namespace) ==
    IF namespace.kind = "list"
    THEN IF Len(namespace.list) > 1 THEN [out |-> <<FALSE>>, err |-> None]
         ELSE IF namespace.list = <<>> THEN [out |-> <<>>, err |-> "IndexError"]
         ELSE [out |-> <<Contains(<<"n", "v", "d">>, LowerStr(namespace.list[1]))>>,
               err |-> None]
    ELSE IF namespace.kind = "str"
    THEN [out |-> <<Contains(<<"n", "v", "d">>, LowerStr(namespace.str))>>, err |-> None]
    ELSE [out |-> <<FALSE>>, err |-> None]

CallIsOnlyNvdNamespace ==
    /\ prov.op = "none"
    /\ \E namespace \in NamespaceArgs :
         LET args == [namespace |-> namespace]
             r == IsOnlyNvdNamespace(namespace)
         IN Provide("is_only_nvd_namespace", args, r.out, args, r.err)

NextScanner == CallIsOnlyNvdNamespace

ScannerSpec == Init /\ [][NextScanner]_vars

-----------------------------------------------------------------------------
(* Where a thread is. *)

\* Inside the with block of update_govulners_db
InWriteSection(t) ==
    /\ call[t].op = "update"
    /\ pc[t] \in {"u_move", "u_extract", "u_remove", "u_write_em", "u_engine",
                  "u_set_dir", "u_set_ver", "u_set_sm", "md_dir", "md_ver", "md_file"}

\* Inside the with block of a match or a query
InReadSection(t) ==
    /\ call[t].op \in {"match", "counts", "query", "version"}
    /\ pc[t] \in {"m_env", "m_run", "c_session", "md_dir", "md_ver", "md_file"}

\* Blocked in read_lock.acquire / write_lock.acquire
Waiting(t) == pc[t] \in {"r_wait", "w_wait"}

\* The call of t has just ended (this step) with error e
EndsWith(t, e) == pc[t] # "done" /\ pc'[t] = "done" /\ res'[t].err = e

\* The files of a directory all come from one archive, extracted in full.
Complete(dir) ==
    \E a \in Archives :
        dir.db = ArchiveContent(a).db /\ dir.meta = ArchiveContent(a).meta

-----------------------------------------------------------------------------
(* Claims *)

\* C1: whenever a reader of a slot has read the slot's directory and version
\* (and, for a query, its session maker), the values it holds were assigned by
\* one install: the (directory, version) pair is one a single install was
\* called with, and the session maker is the one bound to that pair.
C1_ReadersSeeOneInstall ==
    \A t \in Threads :
        (pc[t] = "md_file" /\ loc[t].dir # None /\ loc[t].ver # None)
            => /\ <<loc[t].dir, loc[t].ver>> \in Descs
               /\ call[t].op = "counts" => loc[t].sm = <<loc[t].dir, loc[t].ver>>

\* C2: the lock has no holder, or one writer and no reader, or readers and no
\* writer; a thread inside update_govulners_db's section is that one writer,
\* a thread inside a match or query section is among the readers, so no two
\* such sections overlap unless both are read sections.
C2_LockExclusion ==
    /\ writer # None => readers = {}
    /\ \A t \in Threads :
        /\ InWriteSection(t) => writer = t /\ readers = {}
        /\ InReadSection(t) => t \in readers /\ writer = None
        /\ (writer = t) => InWriteSection(t)
        /\ (t \in readers) => InReadSection(t)

\* A writer is inside its section while the other thread is held off in acquire.
C2_Witness ==
    \E t, u \in Threads :
        /\ InWriteSection(t) /\ pc[t] = "u_extract"
        /\ Waiting(u) /\ waited[u] > 0

\* C3: each of the three staging assignments of unstage_govulners_db is made
\* while no thread holds the read side and no other thread holds the write side.
C3_UnstageUnderWriteLock ==
    [][\A t \in Threads :
          (pc[t] \in {"un_dir", "un_ver", "un_sm"} /\ pc'[t] # pc[t])
              => readers = {} /\ writer \in {None, t}]_vars

\* C4: when update_govulners_db raises inside its with block, the call has
\* changed neither a production field nor a file of the production directory,
\* and the write lock is released.
C4_FailedInstallLeavesProduction ==
    [][\A t \in Threads :
          (InWriteSection(t) /\ pc'[t] = "done" /\ res'[t].err # None)
              => ~touched /\ ~Touches /\ writer' # t]_vars

\* C5: no step of update_govulners_db called with an archive path that does
\* not exist changes a slot field, a snapshot directory or the files in the
\* managed root; once it holds the write lock the call ends with the
\* archive-not-found error, and when it ends it holds no lock.
C5_MissingArchiveNoEffect ==
    [][\A t \in Threads :
          (call[t].op = "update" /\ call[t].archive = MissingArchive /\ pc'[t] # pc[t])
              => /\ UNCHANGED <<slot, fs, rootFiles>>
                 /\ pc[t] = "u_move" => EndsWith(t, "ArchiveNotFound")
                 /\ pc'[t] = "done" => writer' # t /\ t \notin readers']_vars

C5_Witness ==
    \E t \in Threads :
        /\ pc[t] = "done" /\ call[t].op = "update" /\ res[t].err = "ArchiveNotFound"
        /\ writer = None
        /\ \E d \in Descs : ~fs[d].exists

\* C6: when a match is about to run the matching engine, the directory it
\* passes is the production directory field, the production directory holds
\* the members of one archive extracted in full, and its engine_metadata.json
\* names that directory as archive_checksum.
C6_MatchUsesInstalledProduction ==
    \A t \in Threads :
        pc[t] = "m_run"
            => /\ loc[t].dir = slot["prod"].dir
               /\ ProdDesc \in Descs
               /\ Complete(fs[ProdDesc])
               /\ fs[ProdDesc].emeta = EngineMetadata(loc[t].dir,
                                                      fs[ProdDesc].emeta.db_checksum,
                                                      slot["prod"].ver)

\* C7: once a directory {root}/{checksum}/{version} holds its
\* engine_metadata.json (an install has written it), no step changes any of
\* its three files.
C7_SnapshotImmutable ==
    [][\A d \in Descs : fs[d].emeta # NoVal => fs'[d] = fs[d]]_vars

\* C8: a thread blocked in read or write acquisition eventually leaves it,
\* into its critical section or with LockAcquisitionError, whether or not the
\* holder ever releases.
C8_AcquireEnds ==
    \A t \in Threads : Waiting(t) ~> ~Waiting(t)

\* A reader gave up with LockAcquisitionError while a writer still holds the lock.
C8_Witness ==
    \E t \in Threads :
        /\ pc[t] = "done" /\ call[t].op \in {"match", "counts"}
        /\ res[t].err = "LockAcquisitionError"
        /\ writer # None

C10_EngineMetadataWritten ==
    [][\A t \in Threads :
          (InWriteSection(t) /\ EndsWith(t, None))
              => LET d == call[t].desc
                 IN /\ fs'[d].emeta =
                          EngineMetadata(d[1], ChecksumField(fs'[d].meta), d[2])
                    /\ res'[t].val = fs'[d].emeta]_vars

\* A staging install of the archive whose metadata.json carries a checksum returned.
C10_Witness ==
    \E t \in Threads :
        /\ pc[t] = "done" /\ call[t].op = "update" /\ res[t].err = None
        /\ res[t].val.kind = "GovulnersDBEngineMetadata"
        /\ res[t].val.db_checksum \in DbChecksums
        /\ slot["staging"].dir = res[t].val.archive_checksum

\* C11: a call of get_govulners_db_metadata or get_govulners_db_engine_metadata
\* that found both fields of its slot unset, the slot being unset when the
\* call ends, ends with ValueError, for the production slot and for staging.
C11_UnsetSlotRaisesValueError ==
    [][\A t \in Threads :
          (/\ call[t].op = "getmeta"
           /\ pc[t] # "done" /\ pc'[t] = "done"
           /\ slot[SlotOf(t)] = UnsetSlot
           /\ loc[t].dir = None /\ loc[t].ver = None)
              => res'[t].err = "ValueError"]_vars

\* C12: get_current_govulners_db_checksum never raises; it returns None when
\* no production install has returned, and otherwise the archive_checksum of
\* the most recent production install that returned.
C12_CurrentChecksum ==
    [][\A t \in Threads :
          (pc[t] = "cs_dir" /\ pc'[t] = "done")
              => /\ res'[t].err = None
                 /\ res'[t].val = IF lastProd = None THEN NoVal
                                  ELSE [kind |-> "checksum", checksum |-> lastProd]]_vars

\* C13: when unstage_govulners_db has made its third assignment all three
\* staging fields are unset; no step of it changes a production field; unless
\* the file cannot be opened it returns without raising, None when production
\* was never installed and the production engine metadata otherwise.
C13_UnstageEffect ==
    [][\A t \in Threads :
          /\ (call[t].op = "unstage" /\ pc'[t] # pc[t])
                => slot'["prod"] = slot["prod"]
          /\ (pc[t] = "un_sm" /\ pc'[t] # pc[t])
                => slot'["staging"] = UnsetSlot
          /\ (call[t].op = "unstage" /\ pc[t] # "done" /\ pc'[t] = "done"
                                      /\ res'[t].err # "OSError")
                => /\ res'[t].err = None
                   /\ res'[t].val = IF lastProd = None THEN NoVal
                                    ELSE fs[ProdDesc].emeta]_vars

\* C14: no step of a staging install changes a production field and no step
\* of a production install changes a staging field.
C14_InstallLeavesOtherSlot ==
    [][\A t \in Threads :
          (InWriteSection(t) /\ pc'[t] # pc[t])
              => LET other == IF call[t].staging THEN "prod" ELSE "staging"
                 IN slot'[other] = slot[other]]_vars

\* A staging install has returned while production was never installed.
C14_Witness ==
    \E t \in Threads :
        /\ pc[t] = "done" /\ call[t].op = "update" /\ res[t].err = None
        /\ slot["staging"].dir # None /\ slot["staging"].ver # None
        /\ slot["staging"].sm # NoDesc
        /\ slot["prod"] = UnsetSlot

\* The step that ends a sync_metadata call, by return or by raise.
SyncEnds == sync.pc \in {"commit", "rollback"} /\ sync'.pc = "idle"

\* The feed names of a failure list.
FailedNames(failed) == {failed[i][1] : i \in 1..Len(failed)}

\* C15: a sync_metadata call in which reconciling some feed raised (and that
\* met no database failure outside the per-feed try) returns normally; its
\* failure list has one entry for each feed that raised and no other; every
\* upstream feed that did not raise has its record committed.
C15_FailureIsolation ==
    [][(SyncEnds /\ sync.failed # <<>> /\ sres'.err # "OperationalError")
          => /\ sres'.err = None
             /\ sres'.failed = sync.failed
             /\ Len(sres'.failed) = Cardinality(FailedNames(sres'.failed))
             /\ \A f \in SourceNames(sync.input.source) \ FailedNames(sync.failed) :
                    db'[f].present]_vars

\* C16: the committed records change only at the commit of a call that
\* returns; a call that raises leaves the committed records as they were
\* when it started, leaves nothing pending in the session, and raises the
\* exception that escaped.
C16_EscapeRollsBack ==
    [][/\ (db' # db) => (sync.pc = "commit" /\ sync'.pc = "idle" /\ sres'.err = None)
       /\ (sync.pc = "rollback" /\ sync'.pc = "idle")
             => /\ db' = hist.start
                /\ sess' = hist.start
                /\ sres'.err = sync.err /\ sres'.err # None]_vars

\* An exception has escaped the per-feed try while the transaction holds changes.
C16_Witness == sync.pc = "rollback" /\ sess # db /\ ~sync.broken

\* The errors of a failure list.
FailedErrors(failed) == {failed[i][2] : i \in 1..Len(failed)}

\* C17: a call that repeats the call before it (same source_feeds, to_sync and
\* groups; the first returned) and meets no database failure returns as the
\* first did, same feed names and same failure list, and leaves the committed
\* records exactly as the first call left them.
C17_Idempotent ==
    [][(/\ SyncEnds /\ hist.repeat
        /\ sres'.err # "OperationalError"
        /\ "OperationalError" \notin FailedErrors(sync.failed))
          => /\ sres' = hist.res
             /\ db' = hist.start]_vars

\* C18: a committed feed or group record stays the record it is (never
\* created anew) and a committed group keeps its last_sync; a group that
\* appears has last_sync None.
C18_RecordsKept ==
    [][\A f \in Feeds :
          /\ db[f].present => db'[f].present /\ db'[f].born = db[f].born
          /\ \A g \in GroupNames :
                /\ db[f].groups[g].present
                      => /\ db'[f].groups[g].present
                         /\ db'[f].groups[g].born = db[f].groups[g].born
                         /\ db'[f].groups[g].last_sync = db[f].groups[g].last_sync
                /\ (~db[f].groups[g].present /\ db'[f].groups[g].present)
                      => db'[f].groups[g].last_sync = None]_vars

\* A group that had been synced was reconciled with the upstream listing and committed.
C18_Witness ==
    \E f \in Feeds :
        /\ sync.pc = "idle" /\ sres.err = None /\ f \in sres.feeds
        /\ db[f].groups["g1"].last_sync = "synced"
        /\ db[f].groups["g1"].description = "d1"

\* C19: a call that returns has left the record of every feed that upstream
\* reports and to_sync does not name as it was (absent if it was absent), and
\* its failure list names no such feed.
C19_OnlyRequestedFeeds ==
    [][(sync.pc = "commit" /\ sync'.pc = "idle")
          => \A f \in SourceNames(sync.input.source) \ sync.input.to_sync :
                /\ db'[f] = hist.start[f]
                /\ f \notin FailedNames(sres'.failed)]_vars

\* C20: when a call returns, every requested feed that had a record, that
\* upstream reported and that is not in the failure list has the description
\* and access_tier upstream reported, with groups = True and with groups = False.
C20_DisplayFieldsUpdated ==
    [][(sync.pc = "commit" /\ sync'.pc = "idle")
          => \A i \in 1..Len(sync.input.source) :
                LET api == sync.input.source[i]
                IN (/\ api.name \in sync.input.to_sync
                    /\ hist.start[api.name].present
                    /\ api.name \notin FailedNames(sres'.failed))
                      => /\ db'[api.name].description = api.description
                         /\ db'[api.name].access_tier = api.access_tier]_vars

\* C21: when a call returns, no feed name is both a key of the returned dict
\* and the name of an entry of the returned failure list, and every key is a
\* feed of to_sync that upstream reported and that has a committed record.
C21_ReturnedFeedsSucceeded ==
    [][(sync.pc = "commit" /\ sync'.pc = "idle")
          => /\ sres'.feeds \cap FailedNames(sres'.failed) = {}
             /\ \A f \in sres'.feeds :
                    /\ f \in sync.input.to_sync
                    /\ f \in SourceNames(sync.input.source)
                    /\ db'[f].present]_vars

\* C22: LegacySyncUtilProvider.get_groups_to_download returns exactly the
\* enabled groups of the feeds of feeds_to_sync whose metadata exists and is
\* enabled: none of a disabled or metadata-less feed, no disabled group, and
\* no such group left out.
C22_LegacyGroupsToDownload ==
    (prov.op = "legacy_get_groups_to_download")
        => /\ prov.err = None
           /\ Range(prov.out) =
                 {[feed_name |-> f.name, name |-> g, enabled |-> TRUE] :
                     <<f, g>> \in {x \in Range(prov.args.feeds_to_sync) \X GroupNames :
                                     /\ x[1].metadata.present
                                     /\ x[1].metadata.enabled
                                     /\ x[1].metadata.groups[x[2]].present
                                     /\ x[1].metadata.groups[x[2]].enabled}}

\* The call was given a disabled feed with an enabled group and an enabled
\* feed with an enabled group, and returned one group.
C22_Witness ==
    /\ prov.op = "legacy_get_groups_to_download"
    /\ Len(prov.args.feeds_to_sync) = 2
    /\ \E i, j \in 1..2 :
          /\ ~prov.args.feeds_to_sync[i].metadata.enabled
          /\ prov.args.feeds_to_sync[i].metadata.groups["g1"].enabled
          /\ prov.args.feeds_to_sync[j].metadata.enabled
          /\ prov.args.feeds_to_sync[j].metadata.groups["g1"].enabled
    /\ Len(prov.out) = 1

\* C23: GovulnersDBSyncUtilProvider.get_groups_to_download, given an upstream
\* group and a feed with metadata, returns one group with the upstream
\* group's name, description and access tier, enabled, when the metadata is
\* enabled and the empty list when it is disabled; the feed's metadata, the
\* committed records and the session's records are as before the call.
C23_SyntheticGroup ==
    [][(/\ prov'.op = "govulners_get_groups_to_download"
        /\ prov'.args.groups # <<>>
        /\ prov'.args.feeds_to_sync # <<>>
        /\ prov'.args.feeds_to_sync[1].metadata.present)
          => LET api == prov'.args.groups[1]
                 feed == prov'.args.feeds_to_sync[1]
             IN /\ prov'.err = None
                /\ prov'.out =
                      IF feed.metadata.enabled
                      THEN <<[name |-> api.name, feed_name |-> feed.name,
                              description |-> api.description,
                              access_tier |-> api.access_tier, enabled |-> TRUE]>>
                      ELSE <<>>
                /\ prov'.after = prov'.args
                /\ db' = db /\ sess' = sess]_vars

\* The call returned the synthetic group for an enabled feed whose record has no group.
C23_Witness ==
    /\ prov.op = "govulners_get_groups_to_download"
    /\ Len(prov.out) = 1
    /\ prov.out[1].description = "d2"
    /\ ~prov.args.feeds_to_sync[1].metadata.groups["g1"].present
    /\ \E f \in Feeds : db[f].present

\* C24: GovulnersDBSyncUtilProvider.retrieve_group_result raises ValueError
\* when the result list is empty or its first entry has no groups and
\* otherwise returns one GroupSyncResult with the name of group_metadata,
\* updated_record_count 1 and the total_time_seconds of the first group;
\* update_feed_result raises ValueError on an empty result list and
\* otherwise sets feed_result.groups to the first result's groups.
C24_GovulnersResults ==
    /\ (prov.op = "govulners_retrieve_group_result")
          => LET results == prov.args.feed_sync_results
             IN IF results = <<>> \/ results[1].groups = <<>>
                THEN prov.err = "ValueError" /\ prov.out = <<>>
                ELSE /\ prov.err = None
                     /\ Len(prov.out) = 1
                     /\ prov.out[1].group = prov.args.group_metadata.name
                     /\ prov.out[1].updated_record_count = 1
                     /\ prov.out[1].total_time_seconds
                            = results[1].groups[1].total_time_seconds
    /\ (prov.op = "govulners_update_feed_result")
          => IF prov.args.sync_results = <<>>
             THEN prov.err = "ValueError" /\ prov.after = prov.args
             ELSE /\ prov.err = None
                  /\ prov.after.feed_result.groups = prov.args.sync_results[1].groups
                  /\ prov.after.sync_results = prov.args.sync_results

\* A group result was fabricated from a first group of another name and count.
C24_Witness ==
    /\ prov.op = "govulners_retrieve_group_result"
    /\ prov.err = None
    /\ prov.args.feed_sync_results[1].groups[1].group # prov.args.group_metadata.name
    /\ prov.args.feed_sync_results[1].groups[1].total_time_seconds = 7
    /\ Len(prov.args.feed_sync_results[1].groups) = 2

\* C26: execute_request issues at most `retries` requests (3 when no count is
\* given to the call or to the client), none after the first response with
\* status 200; a response it returns has the success flag exactly when some
\* attempt returned 200; and every call ends.
C26_BoundedRetries ==
    /\ [](/\ http.count = Len(http.tried)
          /\ http.count <= http.retries
          /\ (http.pc # "idle")
                => http.retries = IF http.given # 0 THEN http.given
                                  ELSE IF http.configured # 0 THEN http.configured
                                  ELSE 3
          /\ \A i \in 1..(Len(http.tried) - 1) : http.tried[i] # 200
          /\ (http.pc = "done" /\ http.err = None)
                => /\ http.resp.success <=> (200 \in Range(http.tried))
                   /\ http.resp.success \/ http.count = http.retries)
    /\ ((http.pc = "loop") ~> (http.pc = "done"))

\* A call with the default count returned success from its third attempt.
C26_Witness ==
    /\ http.pc = "done" /\ http.given = 0 /\ http.configured = 0
    /\ http.tried = <<500, 0, 200>>
    /\ http.resp.success

\* C27: list_feeds and list_feed_groups ask for the first page without a
\* token and for each following page with the next_token of the page before,
\* never for a page twice; when they return, they have asked for every page
\* once, in order, and return the records of all pages in page order.
C27_Pagination ==
    (fetch.op \in {"list_feeds", "list_feed_groups"})
        => /\ \A i \in 1..Len(fetch.asked) : fetch.asked[i].at = i - 1
           /\ (fetch.pc = "done" /\ fetch.err = None)
                 => /\ Len(fetch.asked) = Len(up.pages)
                    /\ fetch.out = SelectSeq([k \in 1..Len(up.pages) |-> k],
                                             LAMBDA k : up.pages[k])

\* C25: when a fetch operation of either client has ended and the last
\* response it got had status 401, it raised InvalidCredentialsError; status
\* 403, InsufficientAccessTierError; another 4xx or 5xx status,
\* HTTPStatusException; in none of these cases did it return a result.
C25_StatusErrors ==
    (fetch.pc = "done" /\ http.tried # <<>>)
        => LET status == http.tried[Len(http.tried)]
           IN /\ (status = 401) => (fetch.err = "InvalidCredentialsError")
              /\ (status = 403) => (fetch.err = "InsufficientAccessTierError")
              /\ (status \in {400, 404, 500}) => (fetch.err = "HTTPStatusException")
              /\ (status \in {400, 401, 403, 404, 500}) => (fetch.out = <<>>)

\* C28: when listing.json has no entry under the schema version the installed
\* govulners supports (the key is missing or its list is empty), list_feed_groups
\* and get_feed_group_data of GovulnersDBServiceClient end with
\* GovulnersDBUnavailable for that version, having requested no archive, and
\* the slots and the files of the managed root are as they were.
C28_NoDbForSchema ==
    [][(/\ fetch.op \in GovulnersOps /\ fetch.pc = "wait" /\ fetch.stage = "listing"
        /\ fetch'.pc # "wait"
        /\ http.err = None /\ http.resp.success /\ http.resp.content.kind = "listing"
        /\ fetch'.version # None
        /\ \/ ~http.resp.content.val[fetch'.version].has
           \/ http.resp.content.val[fetch'.version].dbs = <<>>)
          => /\ fetch'.pc = "done"
             /\ fetch'.err = "GovulnersDBUnavailable"
             /\ fetch'.out = <<>>
             /\ \A i \in 1..Len(fetch'.asked) : fetch'.asked[i].kind = "listing"
             /\ UNCHANGED <<slot, fs, rootFiles>>]_vars

\* get_feed_group_data ended with GovulnersDBUnavailable for schema 5, whose
\* key the listing has with an empty list, production being installed.
C28_Witness ==
    /\ fetch.op = "govulners_get_feed_group_data" /\ fetch.pc = "done"
    /\ fetch.err = "GovulnersDBUnavailable" /\ fetch.version = "5"
    /\ fetch.seen["5"].has /\ fetch.seen["5"].dbs = <<>>
    /\ slot["prod"].dir # None

C30_QueryFiltering ==
    (qry.last.called /\ qry.last.err = None)
        => LET q == qry.last
               ids == IF q.vuln_id.kind = "str" THEN <<q.vuln_id.str>> ELSE q.vuln_id.list
               nss == IF q.namespace.kind = "str" THEN <<q.namespace.str>>
                      ELSE q.namespace.list
           IN /\ {r.vulnerability : r \in q.out} \ {NoVulnerability}
                    = {v \in qry.tables.vulnerability :
                         /\ (q.vuln_id.kind # "none") => v.id \in Range(ids)
                         /\ (q.namespace.kind # "none") => v.namespace \in Range(nss)
                         /\ (q.affected_package # None)
                               => v.package_name = q.affected_package}
              /\ q.out = QueryVulnerabilities(qry.tables, ListArg(ids), q.affected_package,
                                              ListArg(nss))
                 \/ q.vuln_id.kind = "none" \/ q.namespace.kind = "none"

\* C31: a query_vulnerabilities call that returns has, for every row of the
\* vulnerability table that passes the filters, a result row with that
\* vulnerability, also when no metadata row has its id and namespace.
C31_KeepsVulnerabilityWithoutMetadata ==
    (qry.last.called /\ qry.last.err = None)
        => LET q == qry.last
               ids == AsList(q.vuln_id)
               nss == AsList(q.namespace)
           IN \A v \in qry.tables.vulnerability :
                (/\ (ids.kind # "none") => In(v.id, ids.list)
                 /\ (nss.kind # "none") => In(v.namespace, nss.list)
                 /\ (q.affected_package # None) => v.package_name = q.affected_package)
                    => \E r \in q.out : r.vulnerability = v

\* C32: a thread whose operation has returned or raised holds neither side of
\* the lock; when every thread other than one waiting for the write side is
\* between operations, the lock has no holder, so the waiting install can
\* take it.
C32_LockNeverLeaked ==
    /\ \A t \in Threads :
         (pc[t] \in {"idle", "done"}) => (t \notin readers /\ writer # t)
    /\ \A w \in Threads :
         (/\ pc[w] \in {"idle", "done", "w_wait"}
          /\ \A t \in Threads \ {w} : pc[t] \in {"idle", "done"})
            => (readers = {} /\ writer = None)

\* A query ended with ValueError on the unset production slot and an install
\* ended with an extraction failure inside its write section; the lock is free.
C32_Witness ==
    \E t, u \in Threads :
        /\ pc[t] = "done" /\ call[t].op = "query" /\ res[t].err = "ValueError"
        /\ pc[u] = "done" /\ call[u].op = "update" /\ res[u].err = "ExtractError"
        /\ readers = {} /\ writer = None

\* C33: all get_instance() calls return one instance, at most one instance
\* and one lock are ever made, a lock that a thread holds is the lock of the
\* class, and once an install has set a slot the instance of the class reads
\* the slot as set.
C33_OneInstanceOneLock ==
    /\ \A t, u \in Threads :
         (single.got[t] # 0 /\ single.got[u] # 0) => single.got[t] = single.got[u]
    /\ single.made <= 1
    /\ \A t \in Threads : (single.held[t] # 0) => single.held[t] = single.lock
    /\ (\E i \in Objects \ {0} : single.installed[i])
          => (single.instance # 0 /\ SlotField(single.instance) = "set")

\* C34: whenever no update_govulners_db and no unstage_govulners_db is in
\* progress, the three fields of each slot are all unset or are the directory,
\* version and session maker of one install.
C34_SlotFieldsOfOneInstall ==
    (\A t \in Threads : pc[t] \in {"idle", "done"} \/ call[t].op \notin {"update", "unstage"})
        => \A s \in Slots :
             \/ slot[s] = UnsetSlot
             \/ \E d \in Descs : slot[s] = [dir |-> d[1], ver |-> d[2], sm |-> d]

\* C35: a thread that is blocked in an acquisition holds neither side of the
\* lock, and a thread that holds a side is inside its section and not in an
\* acquisition, also while a writer is waiting.
C35_NoNestedAcquisition ==
    \A t \in Threads :
        /\ Waiting(t) => (t \notin readers /\ writer # t)
        /\ (t \in readers \/ writer = t) => (InReadSection(t) \/ InWriteSection(t))

\* A count query reads the db metadata inside its read section, and an install
\* is at its engine-metadata read-back or waits for the write side.
C35_Witness ==
    \E t, u \in Threads :
        /\ call[t].op = "counts" /\ pc[t] = "md_file" /\ t \in readers
        /\ call[u].op = "update" /\ pc[u] = "w_wait"

\* C36: list_feeds and list_feed_groups go on to another request only after a
\* page that carries a next_token, whether or not the page has the 'feeds' or
\* 'groups' key (a page without the key and without a token stands for the
\* empty body too), and never ask for the same url twice.
C36_StopsWithoutNextToken ==
    (fetch.op \in {"list_feeds", "list_feed_groups"})
        => /\ (fetch.pc = "request" /\ fetch.asked # <<>>)
                 => PageAt(up.pages, fetch.asked[Len(fetch.asked)].at).next # 0
           /\ \A i, j \in 1..Len(fetch.asked) : (i < j) => fetch.asked[i] # fetch.asked[j]

\* C37: no step of sync_metadata changes the enabled flag of a feed or group
\* record that exists, in the session or in the database, and a record that a
\* step creates is enabled.
C37_EnabledKept ==
    [][\A f \in Feeds :
         /\ (db[f].present /\ db'[f].present) => db'[f].enabled = db[f].enabled
         /\ (sess[f].present /\ sess'[f].present) => sess'[f].enabled = sess[f].enabled
         /\ (~sess[f].present /\ sess'[f].present) => sess'[f].enabled
         /\ (~db[f].present /\ db'[f].present) => db'[f].enabled
         /\ \A g \in GroupNames :
              /\ (db[f].groups[g].present /\ db'[f].groups[g].present)
                    => db'[f].groups[g].enabled = db[f].groups[g].enabled
              /\ (sess[f].groups[g].present /\ sess'[f].groups[g].present)
                    => sess'[f].groups[g].enabled = sess[f].groups[g].enabled
              /\ (~sess[f].groups[g].present /\ sess'[f].groups[g].present)
                    => sess'[f].groups[g].enabled
              /\ (~db[f].groups[g].present /\ db'[f].groups[g].present)
                    => db'[f].groups[g].enabled]_vars

\* After a second pass has committed: a disabled feed with a disabled group,
\* both updated from the listing and still disabled, and a feed a pass created.
C37_Witness ==
    /\ sync.pc = "idle" /\ nsync >= 2
    /\ \E f, h \in Feeds :
         /\ db[f].present /\ ~db[f].enabled /\ db[f].description = "d1"
         /\ \E g \in GroupNames :
              /\ db[f].groups[g].present /\ ~db[f].groups[g].enabled
              /\ db[f].groups[g].description = "d1"
         /\ db[h].present /\ db[h].born > 0 /\ db[h].enabled

\* C38: when a call returns, every feed whose group loop raised partway
\* (AttributeError in the failure list) has its record committed with the
\* description and access_tier of the listing and with the groups that came
\* before the entry that raised, created or updated from the listing.
C38_FailedFeedWritesCommitted ==
    [][(sync.pc = "commit" /\ sync'.pc = "idle" /\ sres'.err = None)
          => \A i \in 1..Len(sync.input.source) :
                LET api == sync.input.source[i]
                IN (<<api.name, "AttributeError">> \in Range(sres'.failed))
                      => /\ api.name \in FailedNames(sres'.failed)
                         /\ db'[api.name].present
                         /\ db'[api.name].description = api.description
                         /\ db'[api.name].access_tier = api.access_tier
                         /\ \A k \in 1..Len(api.groups) :
                              (\A j \in 1..k : api.groups[j].ok)
                                 => LET g == db'[api.name].groups[api.groups[k].name]
                                    IN /\ g.present
                                       /\ g.description = api.groups[k].description
                                       /\ g.access_tier = api.groups[k].access_tier]_vars

\* A call has returned with a feed in its failure list whose group, created
\* by this call before the loop raised, is in the committed database.
C38_Witness ==
    /\ sync.pc = "idle" /\ sres.err = None
    /\ \E f \in Feeds :
         /\ <<f, "AttributeError">> \in Range(sres.failed)
         /\ db[f].description = "d1"
         /\ db[f].groups["g1"].present /\ db[f].groups["g1"].born > 0

\* C39: the GroupSyncResult that GovulnersDBSyncUtilProvider.retrieve_group_result
\* returns has status 'success' and updated_image_count 0, whatever the status
\* and the counts of the group results it was given.
C39_FabricatedSuccess ==
    (prov.op = "govulners_retrieve_group_result" /\ prov.err = None)
        => /\ Len(prov.out) = 1
           /\ prov.out[1].status = "success"
           /\ prov.out[1].updated_image_count = 0

\* The result was fabricated from a first group that failed and had updated images.
C39_Witness ==
    /\ prov.op = "govulners_retrieve_group_result"
    /\ prov.err = None
    /\ prov.args.feed_sync_results[1].groups[1].status = "failure"
    /\ prov.args.feed_sync_results[1].groups[1].updated_image_count = 2
    /\ prov.out[1].status = "success"

\* C40: _is_only_nvd_namespace returns True when its argument is a string in
\* which 'n', 'v', 'd' follow one another in either case, or a list of one
\* such string, and returns False, raising nothing, for every other string,
\* every other list of strings of any length, and every other argument.
C40_OnlyNvdNamespace ==
    (prov.op = "is_only_nvd_namespace")
        => LET ns == prov.args.namespace
               HasNvd(s) == \E i \in 1..(Len(s) - 2) :
                               /\ s[i] \in {"n", "N"}
                               /\ s[i + 1] \in {"v", "V"}
                               /\ s[i + 2] \in {"d", "D"}
               expected == \/ ns.kind = "str" /\ HasNvd(ns.str)
                           \/ ns.kind = "list" /\ Len(ns.list) = 1 /\ HasNvd(ns.list[1])
           IN prov.err = None /\ prov.out = <<expected>>

====
